---- MODULE Spec2Model ----
(***************************************************************************)
(* A model of floq/core/evolution.py: the assembly of the Floquet matrix,  *)
(* the selection of the first Brillouin zone, and the evaluators that read *)
(* the resulting Eigensystem.                                              *)
(*                                                                         *)
(* Numbers.  A rounded eigenvalue is an integer: the number of units of    *)
(* 10^-decimals it holds.  A value not yet rounded is an integer number of *)
(* half units, so that np.round has something to decide.  A complex number *)
(* is a pair <<re, im>> of integers.  Array indices are 0-based, as in the *)
(* source; sequences are 1-based, so element i of an array a is a[i + 1].  *)
(*                                                                         *)
(* Calls.  The functions of the module are pure: the state is the call in  *)
(* progress (pc, args), what it ended with (ret), and the Eigensystem that *)
(* eigensystem() built and the evaluators read (bundle).                   *)
(***************************************************************************)
EXTENDS Integers, Sequences, FiniteSets, TLC

VARIABLES
    pc,       \* "call": args is about to be run; "return": ret is its outcome
    args,     \* the call: [fn |-> name, ...arguments]
    ret,      \* the outcome of the call: [status |-> "returned" | an error, ...]
    bundle    \* the Eigensystem namedtuple, or NoBundle before eigensystem()

vars == <<pc, args, ret, bundle>>

(***************************************************************************)
(* Bounds of the model.                                                    *)
(***************************************************************************)
\* the longest eigenvalue array handed to first_brillouin_zone / diagonalise
MaxLen == 4
\* the largest drive frequency, in units
MaxFreq == 3
\* the largest Hamiltonian dimension
MaxDim == 2
\* the longest array handed to find_duplicates, and its largest value
MaxDupLen == 5
\* the largest number of Fourier components of a Hamiltonian tensor
MaxComp == 3
\* the largest number of Brillouin zones
MaxZones == 5
\* the largest number of control parameters
MaxParams == 2
\* the largest number of Brillouin zones of a system that is solved
MaxSolved == 3
\* the latest time an evaluator is asked for, in quarter periods
MaxTime == 1
\* the farthest rung of the ladder of quasienergies that is kept
MaxRung == 2
\* the largest number of quasienergies on the ladder
MaxLadderDim == 3

NoBundle == [built |-> FALSE]
NoRet == [status |-> "none"]

(***************************************************************************)
(* numpy primitives                                                        *)
(***************************************************************************)
\* np.round(x, decimals) of x = h half units: to the nearest unit, a half to
\* the even neighbour.
NpRound(h) ==
    LET q == h \div 2
    IN  IF h % 2 = 0 THEN q ELSE IF q % 2 = 0 THEN q ELSE q + 1

\* a[i] for a 0-based index i that may be negative (counted from the end)
InRange(a, i) == -Len(a) <= i /\ i < Len(a)
At(a, i) == IF i >= 0 THEN a[i + 1] ELSE a[Len(a) + i + 1]

\* a[lo:hi]: Python's slice, negative bounds counted from the end, both
\* clamped to the array
SliceBound(n, b) == IF b < 0 THEN (IF n + b < 0 THEN 0 ELSE n + b)
                    ELSE IF b > n THEN n ELSE b
Slice(a, lo, hi) ==
    LET l == SliceBound(Len(a), lo)
        h == SliceBound(Len(a), hi)
    IN  IF h <= l THEN <<>> ELSE [i \in 1..(h - l) |-> a[l + i]]

\* the outcomes of array.argsort(): every order that sorts the array.  The
\* default sort kind is not stable, so equal values may come in any order.
RECURSIVE ArgSortsOf(_, _)
ArgSortsOf(a, left) ==
    IF left = {} THEN {<<>>}
    ELSE UNION {{<<i>> \o rest : rest \in ArgSortsOf(a, left \ {i})} :
                i \in {j \in left : \A l \in left : a[j] <= a[l]}}
ArgSorts(a) == ArgSortsOf(a, 1..Len(a))

\* a[order]: fancy indexing by an index array
Take(a, order) == [i \in 1..Len(order) |-> a[order[i]]]

\* np.searchsorted(a, v, side='left' | 'right') on a sorted array
SearchSortedLeft(a, v) == Cardinality({i \in 1..Len(a) : a[i] < v})
SearchSortedRight(a, v) == Cardinality({i \in 1..Len(a) : a[i] <= v})

(***************************************************************************)
(* first_brillouin_zone                                                    *)
(***************************************************************************)
Raised(kind) == [status |-> kind, eigenvalues |-> <<>>, eigenvectors |-> <<>>]

\* while eigenvalues[lower + n_lower_edge] == -edge: n_lower_edge += 1
RECURSIVE CountLowerEdge(_, _, _, _)
CountLowerEdge(eigenvalues, lower, edge, n) ==
    IF ~InRange(eigenvalues, lower + n) THEN [raised |-> TRUE, n |-> n]
    ELSE IF At(eigenvalues, lower + n) = -edge
         THEN CountLowerEdge(eigenvalues, lower, edge, n + 1)
         ELSE [raised |-> FALSE, n |-> n]

\* while eigenvalues[upper - n_upper_edge - 1] == edge: n_upper_edge += 1
RECURSIVE CountUpperEdge(_, _, _, _)
CountUpperEdge(eigenvalues, upper, edge, n) ==
    IF ~InRange(eigenvalues, upper - n - 1) THEN [raised |-> TRUE, n |-> n]
    ELSE IF At(eigenvalues, upper - n - 1) = edge
         THEN CountUpperEdge(eigenvalues, upper, edge, n + 1)
         ELSE [raised |-> FALSE, n |-> n]

\* The branch that keeps both edges when the lower edge fills the zone.
ZoneSliceBothEdges(eigenvalues, eigenvectors, n_values, lower, upper, nl, nu) ==
    LET n_not_on_edge == (upper - nu) - (lower + nl)
        Cut(lo, hi) == [status |-> "returned",
                        eigenvalues |-> Slice(eigenvalues, lo, hi),
                        eigenvectors |-> Slice(eigenvectors, lo, hi)]
    IN  IF n_not_on_edge = n_values THEN Cut(lower + nl, upper - nu)
        ELSE IF n_not_on_edge + nl = n_values THEN Cut(lower, upper)
        ELSE IF n_not_on_edge + nu = n_values THEN Cut(lower + nl, upper)
        ELSE Raised("RuntimeError")

\* The branch on the three counts, and the slice it returns.
ZoneSlice(eigenvalues, eigenvectors, n_values, lower, upper, nl, nu) ==
    LET n_not_on_edge == (upper - nu) - (lower + nl)
        Cut(lo, hi) == [status |-> "returned",
                        eigenvalues |-> Slice(eigenvalues, lo, hi),
                        eigenvectors |-> Slice(eigenvectors, lo, hi)]
    IN  IF n_not_on_edge = n_values THEN Cut(lower + nl, upper - nu)
        ELSE IF n_not_on_edge + nl = n_values THEN Cut(lower, upper - nu)
        ELSE IF n_not_on_edge + nu = n_values THEN Cut(lower + nl, upper)
        ELSE Raised("RuntimeError")

\* first_brillouin_zone with the eigenvalues sorted and the eigenvectors left
\* in the solver's order.
first_brillouin_zone_unpaired(eigenvalues, eigenvectors, n_values, edge, order) ==
    LET evs == Take(eigenvalues, order)
        lower == SearchSortedLeft(evs, -edge)
        upper == SearchSortedRight(evs, edge)
        nl == CountLowerEdge(evs, lower, edge, 0)
    IN  IF nl.raised THEN Raised("IndexError")
        ELSE LET nu == CountUpperEdge(evs, upper, edge, 0)
             IN  IF nu.raised THEN Raised("IndexError")
                 ELSE ZoneSlice(evs, eigenvectors, n_values, lower, upper,
                                nl.n, nu.n)

\* first_brillouin_zone(eigenvalues, eigenvectors, n_values, edge); order is
\* what eigenvalues.argsort() returned.
first_brillouin_zone(eigenvalues, eigenvectors, n_values, edge, order) ==
    LET evs == Take(eigenvalues, order)
        vecs == Take(eigenvectors, order)
        lower == SearchSortedLeft(evs, -edge)
        upper == SearchSortedRight(evs, edge)
        nl == CountLowerEdge(evs, lower, edge, 0)
    IN  IF nl.raised THEN Raised("IndexError")
        ELSE LET nu == CountUpperEdge(evs, upper, edge, 0)
             IN  IF nu.raised THEN Raised("IndexError")
                 ELSE ZoneSlice(evs, vecs, n_values, lower, upper, nl.n, nu.n)

(***************************************************************************)
(* find_duplicates                                                         *)
(***************************************************************************)
\* the values of an array, ascending
RECURSIVE SortedValues(_)
SortedValues(S) ==
    IF S = {} THEN <<>>
    ELSE LET m == CHOOSE x \in S : \A y \in S : x <= y
         IN  <<m>> \o SortedValues(S \ {m})

\* np.unique(array, return_index=True)[1]: for each distinct value, in
\* ascending order of the values, the index of its first occurrence
UniqueIndex(array) ==
    LET values == SortedValues({array[i] : i \in 1..Len(array)})
    IN  [k \in 1..Len(values) |->
            (CHOOSE i \in 1..Len(array) :
                /\ array[i] = values[k]
                /\ \A j \in 1..(i - 1) : array[j] # values[k]) - 1]

\* np.split(a, points): a[:p1], a[p1:p2], ..., a[pk:]
NpSplit(a, points) ==
    LET k == Len(points)
        From(r) == IF r = 1 THEN 0 ELSE points[r - 1]
        To(r) == IF r = k + 1 THEN Len(a) ELSE points[r]
    IN  [r \in 1..(k + 1) |-> Slice(a, From(r), To(r))]

IsDegenerate(group) == Len(group) > 1

\* find_duplicates without the filter on the size of a group.
find_duplicates_unfiltered(array) ==
    LET indices == [i \in 1..Len(array) |-> i - 1]
        start_indices == UniqueIndex(array)
    IN  NpSplit(indices, Slice(start_indices, 1, Len(start_indices)))

\* find_duplicates(array): the groups of indices, in the order of the iterator
find_duplicates(array) ==
    LET indices == [i \in 1..Len(array) |-> i - 1]
        start_indices == UniqueIndex(array)
    IN  SelectSeq(NpSplit(indices, Slice(start_indices, 1, Len(start_indices))),
                  IsDegenerate)

(***************************************************************************)
(* diagonalise                                                             *)
(***************************************************************************)
\* linalg.gram_schmidt(vecs).  A vector is modelled by the set of solver
\* eigenvectors it is a combination of; vector m of the orthonormal basis is
\* built from vectors 1..m of the input.
gram_schmidt(vecs) ==
    [m \in 1..Len(vecs) |-> UNION {vecs[r] : r \in 1..m}]

\* for degeneracy in find_duplicates(eigenvalues):
\*     eigenvectors[degeneracy] = linalg.gram_schmidt(eigenvectors[degeneracy])
RECURSIVE Orthogonalise(_, _)
Orthogonalise(eigenvectors, groups) ==
    IF groups = <<>> THEN eigenvectors
    ELSE LET degeneracy == Head(groups)
             basis == gram_schmidt([m \in 1..Len(degeneracy) |->
                                        eigenvectors[degeneracy[m] + 1]])
             replaced == [i \in 1..Len(eigenvectors) |->
                            IF \E m \in 1..Len(degeneracy) : degeneracy[m] + 1 = i
                            THEN basis[CHOOSE m \in 1..Len(degeneracy) :
                                           degeneracy[m] + 1 = i]
                            ELSE eigenvectors[i]]
         IN  Orthogonalise(replaced, Tail(groups))

DiagRaised(kind) == [status |-> kind, eigenvalues |-> <<>>,
                     eigenvectors |-> <<>>, shape |-> <<>>]

\* diagonalise(k, h_dimension, frequency, decimals).  k_dim is k.shape[0];
\* solved is what the eigensolver returned for k: its eigenvalues in half
\* units (k_dim of them from np.linalg.eig, 2 * h_dimension from
\* scipy.sparse.linalg.eigs) and its eigenvectors, vecs[i] being the one paired
\* with vals[i]; order is the outcome of the argsort inside
\* first_brillouin_zone.
diagonalise(k_dim, solved, h_dimension, frequency, order) ==
    LET eigenvalues == [i \in 1..Len(solved.vals) |-> NpRound(solved.vals[i])]
        eigenvectors == solved.vecs
        edge == NpRound(frequency)
        zone == first_brillouin_zone(eigenvalues, eigenvectors, h_dimension,
                                     edge, order)
        n_zones == k_dim \div h_dimension
    IN  IF zone.status # "returned" THEN DiagRaised(zone.status)
        ELSE IF Len(zone.eigenvectors) * k_dim
                    # h_dimension * n_zones * h_dimension
             THEN DiagRaised("ValueError")
        ELSE [status |-> "returned",
              eigenvalues |-> zone.eigenvalues,
              eigenvectors |-> Orthogonalise(zone.eigenvectors,
                                             find_duplicates(zone.eigenvalues)),
              shape |-> <<h_dimension, n_zones, h_dimension>>]

(***************************************************************************)
(* The calls of the spectral selector                                      *)
(***************************************************************************)
\* The inputs of the model.  An eigenvalue array is a sorted array, as it is or
\* rotated by one place (which leaves it unsorted).
Frequencies == 2..MaxFreq
SortedArrays(S, n) ==
    UNION {{a \in [1..m -> S] : \A i \in 1..(m - 1) : a[i] <= a[i + 1]} :
            m \in 1..n}
Orderings(a) ==
    {a, [i \in 1..Len(a) |-> a[(i % Len(a)) + 1]]}
Shuffled(S, n) == UNION {Orderings(a) : a \in SortedArrays(S, n)}

\* rounded values around a zone edge: one below the zone, one above it
Rounded(edge) == (-(edge + 1))..(edge + 1)
\* values not yet rounded, in half units: those that round to an edge, to the
\* values next to it outside the zone, and to the centre of the zone
Unrounded(edge) ==
    {-(2 * edge + 2), -(2 * edge + 1), -(2 * edge), 0, 2,
     2 * edge, 2 * edge + 1, 2 * edge + 2}

ZoneCalls ==
    UNION {
        {[fn |-> "first_brillouin_zone", eigenvalues |-> a, n_values |-> n,
          edge |-> NpRound(f)] : a \in Shuffled(Rounded(NpRound(f)), MaxLen)}
        : f \in Frequencies, n \in 1..MaxDim}

\* k is k_dim square.  np.linalg.eig returns k_dim eigenvalues; the sparse
\* solver returns 2 * h_dimension of them, and needs k_dim > 2 * h_dimension + 1.
DiagonaliseCalls ==
    UNION {
        {[fn |-> "diagonalise", k_dim |-> kd, solved |-> a,
          h_dimension |-> h, frequency |-> f] :
            a \in {b \in Shuffled(Unrounded(NpRound(f)), MaxLen) :
                    Len(b) = kd \/ (Len(b) = 2 * h /\ kd = 5 * h)}}
        : f \in Frequencies, h \in 1..MaxDim, kd \in 1..(5 * MaxDim)}

DuplicateCalls ==
    {[fn |-> "find_duplicates", array |-> a] :
        a \in SortedArrays(1..MaxDupLen, MaxDupLen) \cup {<<>>}}

InitZone ==
    /\ pc = "call"
    /\ args \in ZoneCalls \cup DiagonaliseCalls \cup DuplicateCalls
    /\ ret = NoRet
    /\ bundle = NoBundle

FirstBrillouinZone ==
    /\ pc = "call"
    /\ args.fn = "first_brillouin_zone"
    /\ \E order \in ArgSorts(args.eigenvalues) :
        ret' = first_brillouin_zone(args.eigenvalues,
                    [i \in 1..Len(args.eigenvalues) |-> {i}],
                    args.n_values, args.edge, order)
    /\ pc' = "return"
    /\ UNCHANGED <<args, bundle>>

Diagonalise ==
    /\ pc = "call"
    /\ args.fn = "diagonalise"
    /\ \E order \in ArgSorts([i \in 1..Len(args.solved) |->
                                NpRound(args.solved[i])]) :
        ret' = diagonalise(args.k_dim,
                           [vals |-> args.solved,
                            vecs |-> [i \in 1..Len(args.solved) |-> {i}]],
                           args.h_dimension, args.frequency, order)
    /\ pc' = "return"
    /\ UNCHANGED <<args, bundle>>

FindDuplicates ==
    /\ pc = "call"
    /\ args.fn = "find_duplicates"
    /\ ret' = [status |-> "returned", groups |-> find_duplicates(args.array)]
    /\ pc' = "return"
    /\ UNCHANGED <<args, bundle>>

NextZone == FirstBrillouinZone \/ Diagonalise \/ FindDuplicates

SpecZone == InitZone /\ [][NextZone]_vars

(***************************************************************************)
(* assemble_k and assemble_dk                                              *)
(***************************************************************************)
\* A complex number is <<re, im>>; a dim x dim block is a sequence of rows; a
\* Hamiltonian tensor hf is the sequence of its nc blocks, hf[c + 1] being
\* the block at array index c.
Conj(z) == <<z[1], -z[2]>>
Max(a, b) == IF a >= b THEN a ELSE b
Min(a, b) == IF a <= b THEN a ELSE b
Components(hf) == Len(hf)
Dimension(hf) == Len(hf[1])

\* linalg.n_to_i(n, nc): the array index of harmonic n among nc components
n_to_i(n, nc) == n + ((nc - 1) \div 2)
\* linalg.i_to_n(i, nz): the harmonic offset of block row i among nz zones
i_to_n(i, nz) == i - ((nz - 1) \div 2)

\* linalg.set_block(block, k, dim, nz, row, col): block (row, col) of k := block
set_block(block, k, dim, nz, row, col) ==
    [i \in 1..(dim * nz) |-> [j \in 1..(dim * nz) |->
        IF /\ row * dim < i /\ i <= (row + 1) * dim
           /\ col * dim < j /\ j <= (col + 1) * dim
        THEN block[i - row * dim][j - col * dim]
        ELSE k[i][j]]]

\* current + np.eye(dim) * omega * linalg.i_to_n(row, nz)
WithOffset(current, dim, omega, offset) ==
    [a \in 1..dim |-> [b \in 1..dim |->
        IF a = b THEN <<current[a][b][1] + omega * offset, current[a][b][2]>>
        ELSE current[a][b]]]

\* DiagonalStop with the column bound one block short.
DiagonalStopShort(n, nz) ==
    [row |-> Min(nz - 1 + n, nz - 1), col |-> Min(nz - 1 - n, nz - 2)]

\* DiagonalStart with the row and the column exchanged.
DiagonalStartSwapped(n) == [row |-> Max(0, -n), col |-> Max(0, n)]

\* row = max(0, n); col = max(0, -n)
DiagonalStart(n) == [row |-> Max(0, n), col |-> Max(0, -n)]
\* stop_row = min(nz - 1 + n, nz - 1); stop_col = min(nz - 1 - n, nz - 1)
DiagonalStop(n, nz) ==
    [row |-> Min(nz - 1 + n, nz - 1), col |-> Min(nz - 1 - n, nz - 1)]

\* The while loop of one harmonic n.  acc is the matrix so far and the
\* set_block calls made, each by its (row, col).
RECURSIVE WalkDiagonal(_, _, _, _, _, _, _, _)
WalkDiagonal(acc, current, dim, nz, omega, n, row, col) ==
    IF ~(row <= DiagonalStop(n, nz).row /\ col <= DiagonalStop(n, nz).col)
    THEN acc
    ELSE LET block == IF n = 0
                      THEN WithOffset(current, dim, omega, i_to_n(row, nz))
                      ELSE current
         IN  WalkDiagonal([k |-> set_block(block, acc.k, dim, nz, row, col),
                           calls |-> Append(acc.calls, <<row, col>>)],
                          current, dim, nz, omega, n, row + 1, col + 1)

\* for n in range(-hf_max, hf_max + 1)
RECURSIVE Harmonics(_, _, _, _, _, _)
Harmonics(acc, hf, nz, omega, n, hf_max) ==
    IF n > hf_max THEN acc
    ELSE Harmonics(
            WalkDiagonal(acc, hf[n_to_i(n, Components(hf)) + 1], Dimension(hf),
                         nz, omega, n, DiagonalStart(n).row, DiagonalStart(n).col),
            hf, nz, omega, n + 1, hf_max)

\* assemble_k(hf, nz, omega): the matrix k, with the set_block calls made
assemble_k(hf, nz, omega) ==
    LET k_dim == Dimension(hf) * nz
        hf_max == (Components(hf) - 1) \div 2
        zeros == [i \in 1..k_dim |-> [j \in 1..k_dim |-> <<0, 0>>]]
    IN  Harmonics([k |-> zeros, calls |-> <<>>], hf, nz, omega, -hf_max, hf_max)

\* assemble_dk with a drive frequency handed on to assemble_k.
assemble_dk_offset(dhf, nz) ==
    [c \in 1..Len(dhf) |-> assemble_k(dhf[c], nz, 1).k]

\* assemble_dk(dhf, nz): dk[c, :, :] = assemble_k(dhf[c], nz, 0.0)
assemble_dk(dhf, nz) ==
    [c \in 1..Len(dhf) |-> assemble_k(dhf[c], nz, 0).k]

(***************************************************************************)
(* The calls of the matrix assembler                                       *)
(***************************************************************************)
\* A tensor whose entries all differ (the assembler never looks at them), and
\* the tensor with component(-n) = conjugate transpose of component(+n) made
\* from it.
Generic(nc, dim, seed) ==
    [c \in 1..nc |-> [a \in 1..dim |-> [b \in 1..dim |->
        <<seed + (c - 1) * dim * dim + (a - 1) * dim + b, c + a - 2 * b>>]]]
Hermitianise(hf) ==
    LET mid == (Len(hf) + 1) \div 2
    IN  [c \in 1..Len(hf) |-> [a \in 1..Dimension(hf) |-> [b \in 1..Dimension(hf) |->
            IF c > mid \/ (c = mid /\ a < b) THEN hf[c][a][b]
            ELSE IF c = mid /\ a = b THEN <<hf[c][a][b][1], 0>>
            ELSE Conj(hf[2 * mid - c][b][a])]]]
Tensors ==
    UNION {{Generic(nc, dim, seed), Hermitianise(Generic(nc, dim, seed))} :
            nc \in {n \in 1..MaxComp : n % 2 = 1}, dim \in 1..MaxDim,
            seed \in 0..1}

AssembleCalls ==
    {[fn |-> "assemble_k", hf |-> hf, nz |-> nz, omega |-> omega] :
        hf \in Tensors, nz \in 1..MaxZones, omega \in 0..MaxFreq}
    \cup
    {[fn |-> "assemble_dk", nz |-> nz,
      dhf |-> [c \in 1..npm |-> Generic(nc, dim, c - 1)]] :
        npm \in 0..MaxParams, nc \in {n \in 1..MaxComp : n % 2 = 1},
        dim \in 1..MaxDim, nz \in 1..MaxZones}

InitAssemble ==
    /\ pc = "call"
    /\ args \in AssembleCalls
    /\ ret = NoRet
    /\ bundle = NoBundle

AssembleK ==
    /\ pc = "call"
    /\ args.fn = "assemble_k"
    /\ ret' = [status |-> "returned"]
              @@ assemble_k(args.hf, args.nz, args.omega)
    /\ pc' = "return"
    /\ UNCHANGED <<args, bundle>>

AssembleDk ==
    /\ pc = "call"
    /\ args.fn = "assemble_dk"
    /\ ret' = [status |-> "returned", dk |-> assemble_dk(args.dhf, args.nz)]
    /\ pc' = "return"
    /\ UNCHANGED <<args, bundle>>

NextAssemble == AssembleK \/ AssembleDk

SpecAssemble == InitAssemble /\ [][NextAssemble]_vars

(***************************************************************************)
(* conjugate_rotate_into                                                   *)
(***************************************************************************)
\* np.conj of a (zones x dimension) array
ConjRows(rows) ==
    [z \in 1..Len(rows) |-> [d \in 1..Len(rows[z]) |-> Conj(rows[z][d])]]

\* out[lo:hi] = values.  The slice and the values must have the same length
\* (or the values a single row, which is broadcast).  buffer is the array
\* with the set of indices written so far.
AssignSlice(buffer, lo, hi, values) ==
    LET n == Len(buffer.out)
        l == SliceBound(n, lo)
        h == Max(l, SliceBound(n, hi))
    IN  IF buffer.status # "returned" THEN buffer
        ELSE IF Len(values) # h - l /\ Len(values) # 1
             THEN [buffer EXCEPT !.status = "ValueError"]
        ELSE [status |-> "returned",
              out |-> [i \in 1..n |->
                        IF l < i /\ i <= h
                        THEN (IF Len(values) = 1 THEN values[1]
                              ELSE values[i - l])
                        ELSE buffer.out[i]],
              written |-> buffer.written \cup (l..(h - 1))]

\* conjugate_rotate_into that leaves out the part that wraps round.
conjugate_rotate_into_unwrapped(out, input, amount) ==
    LET n == Len(input)
        buffer == [status |-> "returned", out |-> out, written |-> {}]
        a == IF amount < 0 THEN -amount ELSE amount
    IN  [input |-> input] @@
        IF amount < 0
        THEN AssignSlice(buffer, 0, amount, ConjRows(Slice(input, a, n)))
        ELSE IF amount > 0
        THEN AssignSlice(buffer, amount, n, ConjRows(Slice(input, 0, -amount)))
        ELSE AssignSlice(buffer, 0, n, ConjRows(input))

\* conjugate_rotate_into(out, input, amount): the two arrays afterwards, and
\* the indices of out that were written
conjugate_rotate_into(out, input, amount) ==
    LET n == Len(input)
        buffer == [status |-> "returned", out |-> out, written |-> {}]
        a == IF amount < 0 THEN -amount ELSE amount
    IN  [input |-> input] @@
        IF amount < 0
        THEN AssignSlice(
                AssignSlice(buffer, 0, amount, ConjRows(Slice(input, a, n))),
                amount, Len(out), ConjRows(Slice(input, 0, a)))
        ELSE IF amount > 0
        THEN AssignSlice(
                AssignSlice(buffer, amount, Len(out),
                            ConjRows(Slice(input, 0, -amount))),
                0, amount, ConjRows(Slice(input, -amount, n)))
        ELSE AssignSlice(buffer, 0, Len(out), ConjRows(input))

\* The calls: a Fourier-block sequence of an eigenvector, and the buffer
\* combined_factors allocates with np.zeros and hands to every call.
BlockSequences ==
    {[z \in 1..nz |-> [d \in 1..dim |-> <<seed + (z - 1) * dim + d, z>>]] :
        nz \in 1..MaxZones, dim \in 1..MaxDim, seed \in 0..1}
Zeros(nz, dim) == [z \in 1..nz |-> [d \in 1..dim |-> <<0, 0>>]]

RotateCalls ==
    UNION {
        {[fn |-> "conjugate_rotate_into", input |-> input, amount |-> amount,
          out |-> Zeros(Len(input), Len(input[1]))] :
            amount \in (-Len(input))..Len(input)}
        : input \in BlockSequences}

InitRotate ==
    /\ pc = "call"
    /\ args \in RotateCalls
    /\ ret = NoRet
    /\ bundle = NoBundle

ConjugateRotateInto ==
    /\ pc = "call"
    /\ args.fn = "conjugate_rotate_into"
    /\ ret' = conjugate_rotate_into(args.out, args.input, args.amount)
    /\ pc' = "return"
    /\ UNCHANGED <<args, bundle>>

\* the next iteration of the caller's loop: the same two arrays, as the last
\* call left them, and another amount
RotateAgain ==
    /\ pc = "return"
    /\ args.fn = "conjugate_rotate_into"
    /\ ret.status = "returned"
    /\ \E amount \in (-Len(args.input))..Len(args.input) :
        args' = [args EXCEPT !.out = ret.out, !.input = ret.input,
                             !.amount = amount]
    /\ pc' = "call"
    /\ ret' = NoRet
    /\ UNCHANGED bundle

NextRotate == ConjugateRotateInto \/ RotateAgain

SpecRotate == InitRotate /\ [][NextRotate]_vars

(***************************************************************************)
(* eigensystem                                                             *)
(***************************************************************************)
\* None, and a value that is not None.
None == [none |-> TRUE]
Some(x) == [none |-> FALSE, value |-> x]

\* The eigensolvers are modelled on the matrices whose spectrum needs no
\* arithmetic: the diagonal ones.  Eigenvalue i is entry (i, i), eigenvector i
\* the unit vector of index i, written {i}.
IsDiagonal(k) ==
    \A r, c \in 1..Len(k) : r # c => k[r][c] = <<0, 0>>
SolverRaised(kind) == [status |-> kind, vals |-> <<>>, vecs |-> <<>>]

\* np.linalg.eig(k)
Eig(k) ==
    {[status |-> "returned",
      vals |-> [i \in 1..Len(k) |-> k[i][i][1]],
      vecs |-> [i \in 1..Len(k) |-> {i}]]}

\* scipy.sparse.linalg.eigs(k, k=n, sigma=0.0): the n eigenvalues nearest to
\* zero, any of them where several are equally near.  It refuses n >= N - 1 on
\* a sparse matrix, and the shift-invert factorisation of k - 0 fails when k
\* has the eigenvalue 0.
NearestToZero(vals, n) ==
    LET mag(i) == IF vals[i] < 0 THEN -vals[i] ELSE vals[i]
        all == 1..Len(vals)
        inside(t) == {i \in all : mag(i) < t}
        cut == CHOOSE t \in {mag(i) : i \in all} :
                  /\ Cardinality(inside(t)) < n
                  /\ Cardinality(inside(t + 1)) >= n
        tied == {i \in all : mag(i) = cut}
    IN  {inside(cut) \cup T : T \in {S \in SUBSET tied :
            Cardinality(S) = n - Cardinality(inside(cut))}}
InOrder(S) == CHOOSE p \in ArgSortsOf([i \in S |-> i], S) : TRUE
Eigs(k, n) ==
    LET vals == [i \in 1..Len(k) |-> k[i][i][1]]
    IN  IF n >= Len(k) - 1 THEN {SolverRaised("TypeError")}
        ELSE IF \E i \in 1..Len(k) : vals[i] = 0
             THEN {SolverRaised("RuntimeError")}
        ELSE {[status |-> "returned",
               vals |-> Take(vals, InOrder(S)),
               vecs |-> [m \in 1..n |-> {InOrder(S)[m]}]] :
                  S \in NearestToZero(vals, n)}

\* eigs(k, k=2*h_dimension, ...): twice as many eigenvalues as are needed
Oversampled(h_dimension) == 2 * h_dimension

\* if isinstance(k, scipy.sparse.spmatrix): eigs(...) else: np.linalg.eig(k)
Solve(k, h_dimension, sparse) ==
    IF sparse THEN Eigs(k, Oversampled(h_dimension)) ELSE Eig(k)

\* The harmonic offsets counted from zero instead of centred on it.
fourier_modes_from_zero(n_zones) ==
    [m \in 1..n_zones |-> m - 1]

\* fourier_modes = np.arange((1-n_zones)//2, 1 + (n_zones//2))
fourier_modes(n_zones) ==
    LET start == (1 - n_zones) \div 2
        stop == 1 + (n_zones \div 2)
    IN  [m \in 1..(stop - start) |-> start + m - 1]

\* Unit vector i of the Floquet space lies in zone (i - 1) \div dimension, at
\* level (i - 1) % dimension (both 0-based).
ZoneOf(i, dimension) == (i - 1) \div dimension
LevelOf(i, dimension) == (i - 1) % dimension

\* The eigenvectors of one quasienergy are an orthonormal basis of the span of
\* its solver eigenvectors, and the sum over such a basis of |ket><bra| is
\* the same for every basis of the span.  The basis used is the one of unit
\* vectors: vector m is the unit vector it adds to those before it.
OwnDirection(vecs, m) == vecs[m] \ UNION {vecs[r] : r \in 1..(m - 1)}

CAdd(x, y) == <<x[1] + y[1], x[2] + y[2]>>
\* The sum of the values of a function with a finite domain.
RECURSIVE CSumOver(_, _)
CSumOver(f, S) ==
    IF S = {} THEN <<0, 0>>
    ELSE LET i == CHOOSE i \in S : TRUE
         IN  CAdd(f[i], CSumOver(f, S \ {i}))
CSum(f) == CSumOver(f, DOMAIN f)

\* The same sum with every zone but the central one left out.
SumCentralZone(vecs, dimension, weights, m, level) ==
    LET here == {i \in OwnDirection(vecs, m) :
                    /\ LevelOf(i, dimension) = level - 1
                    /\ ZoneOf(i, dimension) = Len(weights) \div 2}
    IN  CSum([i \in here |-> weights[ZoneOf(i, dimension) + 1]])

\* np.sum(weights * k_eigenvectors, axis=1) for one weight per zone:
\* component `level` of the sum for mode m.
SumOverZones(vecs, dimension, weights, m, level) ==
    LET here == {i \in OwnDirection(vecs, m) :
                    LevelOf(i, dimension) = level - 1}
    IN  CSum([i \in here |-> weights[ZoneOf(i, dimension) + 1]])

\* np.conj(np.sum(k_eigenvectors, axis=1))
SumZones(eigenvectors, n_zones, dimension) ==
    [m \in 1..Len(eigenvectors) |-> [level \in 1..dimension |->
        Conj(SumOverZones(eigenvectors, dimension,
                          [z \in 1..n_zones |-> <<1, 0>>], m, level))]]

\* eigensystem(hamiltonian, dhamiltonian, n_zones, frequency, decimals, sparse)
\* after the solver inside diagonalise returned `solved` and the argsort
\* inside first_brillouin_zone `order`.  The Hamiltonian holds half units and
\* the frequency is in units, so the frequency is 2 * frequency half units.
eigensystem(hamiltonian, dhamiltonian, n_zones, frequency, solved, order) ==
    LET dimension == Dimension(hamiltonian)
        k_dim == dimension * n_zones
        found == diagonalise(k_dim, solved, dimension, frequency, order)
    IN  IF solved.status # "returned"
        THEN [built |-> FALSE, status |-> solved.status]
        ELSE IF found.status # "returned"
        THEN [built |-> FALSE, status |-> found.status]
        ELSE [built |-> TRUE, status |-> "returned",
              frequency |-> frequency,
              quasienergies |-> found.eigenvalues,
              k_eigenvectors |-> [vecs |-> found.eigenvectors,
                                  shape |-> found.shape],
              initial_floquet_bras |-> SumZones(found.eigenvectors, n_zones, dimension),
              abstract_ket_coefficients |->
                  [m \in 1..Len(fourier_modes(n_zones)) |->
                      <<0, frequency * fourier_modes(n_zones)[m]>>],
              k_derivatives |->
                  IF dhamiltonian.none THEN None
                  ELSE Some(assemble_dk(dhamiltonian.value, n_zones))]

(***************************************************************************)
(* integral_factors                                                        *)
(***************************************************************************)
\* Exact arithmetic.  Quasienergies and the frequency are integers (units);
\* the time is `time` quarter periods of the unit energy, that is
\* time * pi / 2, so that exp(i * time * e) = i^(time * e) for an integer e.
\* A value is num / den * (pi/2)^halfpi, num a complex integer.
IPow(n) ==
    CASE n % 4 = 0 -> <<1, 0>>
      [] n % 4 = 1 -> <<0, 1>>
      [] n % 4 = 2 -> <<-1, 0>>
      [] n % 4 = 3 -> <<0, -1>>
CMul(x, y) == <<x[1] * y[1] - x[2] * y[2], x[1] * y[2] + x[2] * y[1]>>
CSub(x, y) == <<x[1] - y[1], x[2] - y[2]>>
Number(num, den, halfpi) == [num |-> num, den |-> den, halfpi |-> halfpi]

\* diag = -1j * time * energy_phases
DiagonalTerm(energy_phases, time, i) ==
    Number(CMul(<<0, -time>>, energy_phases[i + 1]), 1, 1)

\* value = (energy_phases[i] - energy_phases[j]) / (energies[i] - energies[j])
SymmetricTerm(energy_phases, energies, i, j) ==
    Number(CSub(energy_phases[i + 1], energy_phases[j + 1]),
           energies[i + 1] - energies[j + 1], 0)

\* The general term with the phase of row i in both places.
GeneralTermOwnPhase(energy_phases, energies, separation, exponential, i, j) ==
    Number(CSub(energy_phases[i + 1], CMul(energy_phases[i + 1], exponential)),
           energies[i + 1] + separation - energies[j + 1], 0)

\* numer = energy_phases[i] - energy_phases*exponential
\* denom = energies[i] + separation - energies
\* out[diff_index, i] = numer / denom, at column j
GeneralTerm(energy_phases, energies, separation, exponential, i, j) ==
    Number(CSub(energy_phases[i + 1], CMul(energy_phases[j + 1], exponential)),
           energies[i + 1] + separation - energies[j + 1], 0)

\* The second general loop started one slice late.
PositiveRangeLate(n_zones, n_differences) ==
    (n_zones + 1)..(n_differences - 1)

\* for diff_index in range(n_zones - 1)
NegativeRange(n_zones) == 0..(n_zones - 2)
\* for diff_index in range(n_zones, differences.shape[0])
PositiveRange(n_zones, n_differences) == n_zones..(n_differences - 1)

\* integral_factors(eigensystem, time), es being the Eigensystem.  out is
\* np.empty: an element no loop assigns keeps writes = 0; by is the set of the
\* loops, numbered in the order of the source, that assign it.  The scalar division of the symmetric loop raises
\* on a zero divisor; the array division of the last two loops yields a
\* non-finite element instead, kept as den = 0.
integral_factors(es, time) ==
    LET n_zones == es.k_eigenvectors.shape[2]
        dimension == es.k_eigenvectors.shape[3]
        energies == es.quasienergies
        frequency == es.frequency
        n == Len(energies)
        energy_phases == [i \in 1..n |-> IPow(-(time * energies[i]))]
        differences == [d \in 1..(2 * n_zones - 1) |-> 1 - n_zones + (d - 1)]
        diff_exponentials == [d \in 1..Len(differences) |->
                                 IPow(time * frequency * differences[d])]
        DiagLoop == {<<n_zones - 1, i, i>> : i \in 0..(n - 1)}
        SymPairs == {<<i, j>> \in (0..(n - 1)) \X (0..(n - 1)) : j < i}
        SymLoop == {<<n_zones - 1, p[1], p[2]>> : p \in SymPairs}
                   \cup {<<n_zones - 1, p[2], p[1]>> : p \in SymPairs}
        NegLoop == NegativeRange(n_zones) \X (0..(n - 1)) \X (0..(n - 1))
        PosLoop == PositiveRange(n_zones, Len(differences))
                   \X (0..(n - 1)) \X (0..(n - 1))
        general(d, i, j) ==
            GeneralTerm(energy_phases, energies, frequency * differences[d + 1],
                        diff_exponentials[d + 1], i, j)
        element(d, i, j) ==
            LET at == <<d, i, j>>
                by == {l \in 1..4 :
                          at \in <<DiagLoop, SymLoop, NegLoop, PosLoop>>[l]}
                last == IF at \in PosLoop \/ at \in NegLoop THEN general(d, i, j)
                        ELSE IF at \in SymLoop
                             THEN SymmetricTerm(energy_phases, energies,
                                                Max(i, j), Min(i, j))
                        ELSE IF at \in DiagLoop
                             THEN DiagonalTerm(energy_phases, time, i)
                        ELSE Number(<<0, 0>>, 1, 0)
            IN  last @@ [writes |-> Cardinality(by), by |-> by]
    IN  IF \E p \in SymPairs : energies[p[1] + 1] = energies[p[2] + 1]
        THEN [status |-> "ZeroDivisionError", out |-> <<>>]
        ELSE [status |-> "returned",
              out |-> [d \in 1..Len(differences) |-> [i \in 1..dimension |->
                          [j \in 1..dimension |-> element(d - 1, i - 1, j - 1)]]]]

(***************************************************************************)
(* combined_factors and du_dcontrols                                       *)
(***************************************************************************)
\* current_floquet_kets(es, time): the weights, reshaped to
\* (1, -1, 1), are broadcast against k_eigenvectors along the zone axis.
current_floquet_kets(es, time) ==
    LET n_weights == Len(es.abstract_ket_coefficients)
        shape == es.k_eigenvectors.shape
        weights == [z \in 1..n_weights |->
                       IPow(time * es.abstract_ket_coefficients[z][2])]
    IN  IF n_weights # shape[2] /\ n_weights # 1 /\ shape[2] # 1
        THEN [status |-> "ValueError", shape |-> <<>>]
        ELSE [status |-> "returned", shape |-> <<shape[1], shape[3]>>,
              kets |-> [m \in 1..shape[1] |-> [level \in 1..shape[3] |->
                  SumOverZones(es.k_eigenvectors.vecs, shape[3],
                               weights, m, level)]]]

\* d_current_floquet_kets(es, time): the weights carry the
\* coefficient of their zone as a factor.
d_current_floquet_kets(es, time) ==
    LET n_weights == Len(es.abstract_ket_coefficients)
        shape == es.k_eigenvectors.shape
        weights == [z \in 1..n_weights |->
                       CMul(es.abstract_ket_coefficients[z],
                            IPow(time * es.abstract_ket_coefficients[z][2]))]
    IN  IF n_weights # shape[2] /\ n_weights # 1 /\ shape[2] # 1
        THEN [status |-> "ValueError", shape |-> <<>>]
        ELSE [status |-> "returned", shape |-> <<shape[1], shape[3]>>,
              kets |-> [m \in 1..shape[1] |-> [level \in 1..shape[3] |->
                  SumOverZones(es.k_eigenvectors.vecs, shape[3],
                               weights, m, level)]]]

\* np.outer(a, b)
Outer(a, b) == [row \in 1..Len(a) |-> [col \in 1..Len(b) |->
                   CMul(a[row], b[col])]]

MatrixZeros(n) == [row \in 1..n |-> [col \in 1..n |-> <<0, 0>>]]
MatrixAdd(x, y) == [row \in 1..Len(x) |-> [col \in 1..Len(x[row]) |->
                       CAdd(x[row][col], y[row][col])]]
MatrixScale(c, x) == [row \in 1..Len(x) |-> [col \in 1..Len(x[row]) |->
                         CMul(c, x[row][col])]]
VectorScale(c, v) == [a \in 1..Len(v) |-> CMul(c, v[a])]

\* np.exp(-1j * time * quasienergies), the time being in quarter turns of a
\* unit of energy.
EnergyPhases(es, time) ==
    [m \in 1..Len(es.quasienergies) |-> IPow(-(time * es.quasienergies[m]))]

\* The loop of u over the modes, after `modes` of them.
RECURSIVE UAfter(_, _, _, _)
UAfter(es, kets, phases, modes) ==
    IF modes = 0 THEN MatrixZeros(Len(es.quasienergies))
    ELSE MatrixAdd(UAfter(es, kets, phases, modes - 1),
                   Outer(VectorScale(phases[modes], kets[modes]),
                         es.initial_floquet_bras[modes]))

\* u(es, time)
u(es, time) ==
    LET kets == current_floquet_kets(es, time)
    IN  IF kets.status # "returned"
        THEN [status |-> kets.status]
        ELSE [status |-> "returned",
              out |-> UAfter(es, kets.kets, EnergyPhases(es, time),
                             Len(es.quasienergies))]

\* The loop of du_dt over the modes, after `modes` of them: each mode adds
\* the outer product with the derivative of its ket and, times its energy
\* factor, the one with its ket.
RECURSIVE DuDtAfter(_, _, _, _, _)
DuDtAfter(es, kets, d_kets, phases, modes) ==
    IF modes = 0 THEN MatrixZeros(Len(es.quasienergies))
    ELSE LET before == DuDtAfter(es, kets, d_kets, phases, modes - 1)
             energy_factor == <<0, -es.quasienergies[modes]>>
             first == Outer(VectorScale(phases[modes], d_kets[modes]),
                            es.initial_floquet_bras[modes])
             second == Outer(VectorScale(phases[modes], kets[modes]),
                             es.initial_floquet_bras[modes])
         IN  MatrixAdd(MatrixAdd(before, first),
                       MatrixScale(energy_factor, second))

\* du_dt(es, time)
du_dt(es, time) ==
    LET kets == current_floquet_kets(es, time)
        d_kets == d_current_floquet_kets(es, time)
    IN  IF kets.status # "returned"
        THEN [status |-> kets.status]
        ELSE [status |-> "returned",
              out |-> DuDtAfter(es, kets.kets, d_kets.kets,
                                EnergyPhases(es, time),
                                Len(es.quasienergies))]

\* combined_factors(es, time), as far as its outcome and the shape of
\* what it returns.  es.k_derivatives.shape is read first, and None
\* has no shape.
combined_factors(es, time) ==
    LET n_zones == es.k_eigenvectors.shape[2]
        dimension == es.k_eigenvectors.shape[3]
        integral_terms == integral_factors(es, time)
    IN  IF es.k_derivatives.none
        THEN [status |-> "AttributeError", shape |-> <<>>]
        ELSE IF integral_terms.status # "returned"
        THEN [status |-> integral_terms.status, shape |-> <<>>]
        ELSE [status |-> "returned",
              shape |-> <<2 * n_zones - 1, dimension, dimension,
                          Len(es.k_derivatives.value)>>]

\* du_dcontrols that takes a missing k_derivatives for no parameters at all.
du_dcontrols_lenient(es, time) ==
    LET dimension == es.k_eigenvectors.shape[3]
    IN  IF es.k_derivatives.none
        THEN [status |-> "returned", zeros |-> TRUE,
              shape |-> <<0, dimension, dimension>>]
        ELSE [status |-> "returned", zeros |-> FALSE,
              shape |-> <<Len(es.k_derivatives.value),
                          dimension, dimension>>]

\* du_dcontrols(es, time), as far as its outcome, the shape of what
\* it returns, and whether that is the np.zeros it started from.
du_dcontrols(es, time) ==
    LET dimension == es.k_eigenvectors.shape[3]
        n_parameters == Len(es.k_derivatives.value)
        factors == combined_factors(es, time)
        current_kets == current_floquet_kets(es, time)
        raised(kind) == [status |-> kind, zeros |-> FALSE, shape |-> <<>>]
    IN  IF es.k_derivatives.none THEN raised("AttributeError")
        ELSE IF n_parameters = 0
        THEN [status |-> "returned", zeros |-> TRUE,
              shape |-> <<n_parameters, dimension, dimension>>]
        ELSE IF factors.status # "returned" THEN raised(factors.status)
        ELSE IF current_kets.status # "returned"
        THEN raised(current_kets.status)
        ELSE [status |-> "returned", zeros |-> FALSE,
              shape |-> <<n_parameters, dimension, dimension>>]

(***************************************************************************)
(* The calls on an Eigensystem                                             *)
(***************************************************************************)
\* A time-independent Hamiltonian with the given levels (half units) on its
\* diagonal: every Fourier component but the central one is zero.
Static(nc, levels) ==
    [c \in 1..nc |-> [a \in 1..Len(levels) |-> [b \in 1..Len(levels) |->
        IF c = (nc + 1) \div 2 /\ a = b THEN <<levels[a], 0>> ELSE <<0, 0>>]]]
\* Levels that round onto either edge of the zone, and inside it; at most two
\* levels of a Hamiltonian round to a whole number of frequencies apart.
Levels(frequency) ==
    {-2 * NpRound(frequency), 0, 1, 2 * NpRound(frequency)}
\* An even and an odd number of units: half of the first is a whole number of
\* units, half of the second is rounded.
DriveFrequencies == {2, 3}
LevelArrays(frequency) ==
    {a \in SortedArrays(Levels(frequency), MaxDim) :
        \A i \in 1..Len(a) :
            Cardinality({l \in 1..Len(a) :
                (NpRound(a[l]) - NpRound(a[i])) % frequency = 0}) <= 2}
Derivatives(dim) ==
    {None} \cup {Some([c \in 1..npm |-> Generic(1, dim, c - 1)]) : npm \in 0..1}
EigensystemCalls ==
    UNION {UNION {
        {[fn |-> "eigensystem", hamiltonian |-> Static(nc, levels),
          dhamiltonian |-> dh, n_zones |-> nz, frequency |-> f,
          sparse |-> sparse] :
            nc \in {1, 3}, dh \in Derivatives(Len(levels)),
            nz \in 1..MaxSolved, sparse \in BOOLEAN} :
        levels \in LevelArrays(f)} : f \in DriveFrequencies}
Times == (-1)..MaxTime

Init ==
    /\ pc = "call"
    /\ args \in EigensystemCalls
    /\ ret = NoRet
    /\ bundle = NoBundle

Eigensystem ==
    /\ pc = "call"
    /\ args.fn = "eigensystem"
    /\ LET k == assemble_k(args.hamiltonian, args.n_zones,
                           2 * args.frequency).k
       IN  \E solved \in Solve(k, Dimension(args.hamiltonian), args.sparse) :
           \E order \in ArgSorts([i \in 1..Len(solved.vals) |->
                                     NpRound(solved.vals[i])]) :
              LET made == eigensystem(args.hamiltonian, args.dhamiltonian,
                                      args.n_zones, args.frequency,
                                      solved, order)
              IN  /\ IsDiagonal(k)
                  /\ bundle' = IF made.built THEN made ELSE NoBundle
                  /\ ret' = [status |-> made.status]
    /\ pc' = "return"
    /\ UNCHANGED args

IntegralFactors ==
    /\ bundle.built
    /\ pc = "return"
    /\ \E time \in Times :
        /\ args' = [fn |-> "integral_factors", time |-> time]
        /\ ret' = integral_factors(bundle, time)
    /\ UNCHANGED <<pc, bundle>>

CombinedFactors ==
    /\ bundle.built
    /\ pc = "return"
    /\ \E time \in Times :
        /\ args' = [fn |-> "combined_factors", time |-> time]
        /\ ret' = combined_factors(bundle, time)
    /\ UNCHANGED <<pc, bundle>>

DuDcontrols ==
    /\ bundle.built
    /\ pc = "return"
    /\ \E time \in Times :
        /\ args' = [fn |-> "du_dcontrols", time |-> time]
        /\ ret' = du_dcontrols(bundle, time)
    /\ UNCHANGED <<pc, bundle>>

U ==
    /\ bundle.built
    /\ pc = "return"
    /\ \E time \in Times :
        /\ args' = [fn |-> "u", time |-> time]
        /\ ret' = u(bundle, time)
    /\ UNCHANGED <<pc, bundle>>

DuDt ==
    /\ bundle.built
    /\ pc = "return"
    /\ \E time \in Times :
        /\ args' = [fn |-> "du_dt", time |-> time]
        /\ ret' = du_dt(bundle, time)
    /\ UNCHANGED <<pc, bundle>>

Next ==
    \/ Eigensystem
    \/ IntegralFactors
    \/ CombinedFactors
    \/ DuDcontrols
    \/ U
    \/ DuDt

Spec == Init /\ [][Next]_vars

(***************************************************************************)
(* The sparse path on an unbounded ladder                                  *)
(***************************************************************************)
\* The spectrum of the untruncated Floquet matrix: every quasienergy (half
\* units) repeated at every whole multiple of the frequency.  The copies of
\* rungs -MaxRung..MaxRung are kept; with the quasienergies within one
\* frequency of zero they hold the 2 * dimension values nearest zero.
RungCount == 2 * MaxRung + 1
LadderLevel(index, dimension) == ((index - 1) % dimension) + 1
LadderRung(index, dimension) == ((index - 1) \div dimension) - MaxRung
Ladder(levels, frequency) ==
    [index \in 1..(Len(levels) * RungCount) |->
        levels[LadderLevel(index, Len(levels))]
            + 2 * frequency * LadderRung(index, Len(levels))]

\* eigs(k, k=2*h_dimension, sigma=0.0) on that spectrum: eigenvector i is the
\* copy {i} of the ladder.
LadderEigs(spectrum, n) ==
    {[status |-> "returned",
      vals |-> Take(spectrum, InOrder(S)),
      vecs |-> [m \in 1..n |-> {InOrder(S)[m]}]] :
          S \in NearestToZero(spectrum, n)}

LadderCalls ==
    UNION {
        {[fn |-> "diagonalise", sparse |-> TRUE, levels |-> levels,
          h_dimension |-> Len(levels), frequency |-> f] :
            levels \in SortedArrays((-f)..f, MaxLadderDim)}
        : f \in Frequencies}

InitLadder ==
    /\ pc = "call"
    /\ args \in LadderCalls
    /\ ret = NoRet
    /\ bundle = NoBundle

DiagonaliseSparse ==
    /\ pc = "call"
    /\ args.fn = "diagonalise"
    /\ \E solved \in LadderEigs(Ladder(args.levels, args.frequency),
                                Oversampled(args.h_dimension)) :
       \E order \in ArgSorts([i \in 1..Len(solved.vals) |->
                                 NpRound(solved.vals[i])]) :
          ret' = diagonalise(args.h_dimension * RungCount, solved,
                             args.h_dimension, args.frequency, order)
    /\ pc' = "return"
    /\ UNCHANGED <<args, bundle>>

NextLadder == DiagonaliseSparse

SpecLadder == InitLadder /\ [][NextLadder]_vars

(***************************************************************************)
(* Evaluators interleaving on one Eigensystem                              *)
(***************************************************************************)
\* Two callers evaluate on the same Eigensystem, one statement at a time.
\* The arrays of the Eigensystem are held by owner 0 and every array a call
\* allocates by the caller; `bundle` is the Eigensystem, ret.heap the
\* allocated arrays, ret.result what each caller's last call returned,
\* pc[c] the statement caller c is at and args[c] its call.
MaxSharedZones == 3
Dimensions == {1, 2}
Callers == {1, 2}
Evaluators ==
    {"current_floquet_kets", "d_current_floquet_kets", "u", "du_dt",
     "integral_factors", "combined_factors", "du_dcontrols"}

\* An Eigensystem of a given shape with entries that all differ.
SharedEigensystem(n_zones, dimension, k_derivatives) ==
    LET k_eigenvectors ==
            [m \in 1..dimension |-> [z \in 1..n_zones |->
                [d \in 1..dimension |->
                    <<((m - 1) * n_zones + z - 1) * dimension + d, z>>]]]
    IN  [built |-> TRUE,
         frequency |-> 2,
         quasienergies |-> [m \in 1..dimension |-> m - 1],
         k_eigenvectors |-> k_eigenvectors,
         initial_floquet_bras |->
             [m \in 1..dimension |-> [d \in 1..dimension |->
                 Conj(CSum([z \in 1..n_zones |-> k_eigenvectors[m][z][d]]))]],
         abstract_ket_coefficients |->
             [z \in 1..Len(fourier_modes(n_zones)) |->
                 <<0, 2 * fourier_modes(n_zones)[z]>>],
         k_derivatives |-> k_derivatives]

\* A local name of caller `owner`, and row `row` of an Eigensystem field.
Allocate(owner, name) == [owner |-> owner, name |-> name, row |-> 0]
Field(name, row) == [owner |-> 0, name |-> name, row |-> row]

Load(memory, ref) ==
    IF ref.owner = 0
    THEN (IF ref.row = 0 THEN memory.es[ref.name]
          ELSE memory.es[ref.name][ref.row])
    ELSE IF <<ref.owner, ref.name>> \in DOMAIN memory.heap
    THEN memory.heap[<<ref.owner, ref.name>>]
    ELSE <<>>

Store(memory, ref, value) ==
    IF ref.owner = 0
    THEN [memory EXCEPT !.es[ref.name] =
            IF ref.row = 0 THEN value ELSE [@ EXCEPT ![ref.row] = value]]
    ELSE [memory EXCEPT !.heap =
            (<<ref.owner, ref.name>> :> value) @@ @]

\* The locals of a call die when it returns.
Release(memory, owner) ==
    [memory EXCEPT !.heap =
        [key \in {k \in DOMAIN @ : k[1] # owner} |-> @[key]]]

\* One local dies.
Drop(memory, ref) ==
    [memory EXCEPT !.heap =
        [key \in {k \in DOMAIN @ : k # <<ref.owner, ref.name>>} |-> @[key]]]

\* The shape of k_eigenvectors.
ShapeOf(es) ==
    <<Len(es.k_eigenvectors), Len(es.k_eigenvectors[1]),
      Len(es.k_eigenvectors[1][1])>>

\* The Eigensystem as the evaluators above take it.
Shaped(es) == [es EXCEPT !.k_eigenvectors = [vecs |-> <<>>, shape |-> ShapeOf(es)]]

\* np.sum(weights * k_eigenvectors, axis=1) on the arrays themselves; the
\* weights are broadcast along the zone axis.
WeightedSum(es, weights) ==
    LET shape == ShapeOf(es)
        weight(z) == IF Len(weights) = 1 THEN weights[1] ELSE weights[z]
        zones(m) == IF shape[2] = 1 THEN 1..Len(weights) ELSE 1..shape[2]
        row(m, z) == IF shape[2] = 1 THEN es.k_eigenvectors[m][1]
                     ELSE es.k_eigenvectors[m][z]
    IN  IF Len(weights) # shape[2] /\ Len(weights) # 1 /\ shape[2] # 1
        THEN [status |-> "ValueError"]
        ELSE [status |-> "returned",
              out |-> [m \in 1..shape[1] |-> [d \in 1..shape[3] |->
                  CSum([z \in zones(m) |-> CMul(weight(z), row(m, z)[d])])]]]

KetWeights(es, time) ==
    [z \in 1..Len(es.abstract_ket_coefficients) |->
        IPow(time * es.abstract_ket_coefficients[z][2])]
DKetWeights(es, time) ==
    [z \in 1..Len(es.abstract_ket_coefficients) |->
        CMul(es.abstract_ket_coefficients[z], KetWeights(es, time)[z])]

\* Where a caller is: the statement, and the loop variables of the source
\* (0-based, as there).
Frame(label, diff_index, i, j, zone_i) ==
    [label |-> label, diff_index |-> diff_index, i |-> i, j |-> j,
     zone_i |-> zone_i]
Idle == Frame("idle", 0, 0, 0, 0)

\* The outcome of a statement: the caller moves on, or its call is over and
\* its locals die.
Goto(frame, memory) == [frame |-> frame, memory |-> memory, result |-> NoRet]
Return(owner, memory, result) ==
    [frame |-> Frame("return", 0, 0, 0, 0),
     memory |-> Release(memory, owner), result |-> result]

\* current_floquet_kets and d_current_floquet_kets
KetsStep(c, call, memory) ==
    Return(c, memory, WeightedSum(memory.es, KetWeights(memory.es, call.time)))
DKetsStep(c, call, memory) ==
    Return(c, memory, WeightedSum(memory.es, DKetWeights(memory.es, call.time)))

\* integral_factors
IntegralStep(c, call, memory) ==
    Return(c, memory, integral_factors(Shaped(memory.es), call.time))

\* u, lines 109-112: out, kets and energy_phases
UAlloc(c, call, memory) ==
    LET dimension == Len(memory.es.quasienergies)
        kets == WeightedSum(memory.es, KetWeights(memory.es, call.time))
    IN  IF kets.status # "returned" THEN Return(c, memory, kets)
        ELSE Goto(Frame("u.add", 0, 0, 0, 0),
                  Store(Store(memory, Allocate(c, "out"), MatrixZeros(dimension)),
                        Allocate(c, "kets"), kets.out))

\* u, lines 116-119: one turn of the loop over the modes
UAdd(c, call, frame, memory) ==
    LET es == memory.es
        mode == frame.i + 1
        dimension == Len(es.quasienergies)
        product == Outer(VectorScale(EnergyPhases(es, call.time)[mode],
                                     Load(memory, Allocate(c, "kets"))[mode]),
                         es.initial_floquet_bras[mode])
        out == MatrixAdd(Load(memory, Allocate(c, "out")), product)
    IN  IF mode < dimension
        THEN Goto(Frame("u.add", 0, mode, 0, 0),
                  Store(memory, Allocate(c, "out"), out))
        ELSE Return(c, memory, [status |-> "returned", out |-> out])

\* The calculation space of du_dt (line 131)
CalculationSpace(c) == Allocate(c, "tmp")

\* du_dt, lines 128-137
DuDtAlloc(c, call, memory) ==
    LET dimension == Len(memory.es.quasienergies)
        kets == WeightedSum(memory.es, KetWeights(memory.es, call.time))
        dkets_dt == WeightedSum(memory.es, DKetWeights(memory.es, call.time))
        zeros == MatrixZeros(dimension)
    IN  IF kets.status # "returned" THEN Return(c, memory, kets)
        ELSE Goto(Frame("du_dt.outer_dkets", 0, 0, 0, 0),
                  Store(Store(Store(Store(memory,
                      Allocate(c, "out"), zeros),
                      CalculationSpace(c), zeros),
                      Allocate(c, "kets"), kets.out),
                      Allocate(c, "dkets_dt"), dkets_dt.out))

\* du_dt, lines 140-145: the four statements of one turn of the loop
DuDtOuter(c, call, frame, memory, kets, next) ==
    LET es == memory.es
        mode == frame.i + 1
        product == Outer(VectorScale(EnergyPhases(es, call.time)[mode],
                                     Load(memory, Allocate(c, kets))[mode]),
                         es.initial_floquet_bras[mode])
    IN  Goto([frame EXCEPT !.label = next],
             Store(memory, CalculationSpace(c), product))

DuDtAddFirst(c, call, frame, memory) ==
    Goto([frame EXCEPT !.label = "du_dt.outer_kets"],
         Store(memory, Allocate(c, "out"),
               MatrixAdd(Load(memory, Allocate(c, "out")),
                         Load(memory, CalculationSpace(c)))))

DuDtAddSecond(c, call, frame, memory) ==
    LET es == memory.es
        mode == frame.i + 1
        energy_factor == <<0, -es.quasienergies[mode]>>
        out == MatrixAdd(Load(memory, Allocate(c, "out")),
                         MatrixScale(energy_factor,
                                     Load(memory, CalculationSpace(c))))
    IN  IF mode < Len(es.quasienergies)
        THEN Goto(Frame("du_dt.outer_dkets", 0, mode, 0, 0),
                  Store(memory, Allocate(c, "out"), out))
        ELSE Return(c, memory, [status |-> "returned", out |-> out])

\* a.ravel() of a (zones x dimension) array
Ravel(a) ==
    IF Len(a) = 0 THEN <<>>
    ELSE [k \in 1..(Len(a) * Len(a[1])) |->
            a[((k - 1) \div Len(a[1])) + 1][((k - 1) % Len(a[1])) + 1]]

\* bra @ matrix @ ket
Expectation(bra, matrix, ket) ==
    CSum([a \in 1..Len(bra) |->
            CMul(bra[a], CSum([b \in 1..Len(ket) |->
                                 CMul(matrix[a][b], ket[b])]))])

\* enumerate(range(1 - n_zones, n_zones)): the indices, and the difference
\* at an index
DiffIndices(n_zones) == 0..(2 * n_zones - 2)
Diff(n_zones, diff_index) == 1 - n_zones + diff_index

\* The rotation target of combined_factors (lines 226-227), and the arguments
\* of its call of conjugate_rotate_into (line 235).
RotationTargetOfFirst(c) == Allocate(1, "rolled_k_eigenbra")
RotationTarget(c) == Allocate(c, "rolled_k_eigenbra")
RotationArgumentsSwapped(c, i) ==
    [out |-> Field("k_eigenvectors", i + 1), input |-> RotationTarget(c)]
RotationArguments(c, i) ==
    [out |-> RotationTarget(c), input |-> Field("k_eigenvectors", i + 1)]

\* combined_factors, lines 221-232.  np.empty leaves every element of
\* factors without a value.
NoValue == [term |-> <<>>, expectation |-> <<>>]
CombinedAlloc(c, call, memory) ==
    LET es == memory.es
        n_zones == ShapeOf(es)[2]
        dimension == ShapeOf(es)[3]
        n_parameters == Len(es.k_derivatives.value)
        factors == [d \in 1..(2 * n_zones - 1) |-> [i \in 1..dimension |->
                       [j \in 1..dimension |-> [p \in 1..n_parameters |->
                           NoValue]]]]
        integral_terms == integral_factors(Shaped(es), call.time)
    IN  IF es.k_derivatives.none
        THEN Return(c, memory, [status |-> "AttributeError"])
        ELSE IF integral_terms.status # "returned"
        THEN Return(c, memory, [status |-> integral_terms.status])
        ELSE Goto(Frame("combined_factors.rotate", 0, 0, 0, 0),
                  Store(Store(Store(memory,
                      Allocate(c, "factors"), factors),
                      RotationTarget(c), Zeros(n_zones, dimension)),
                      Allocate(c, "integral_terms"), integral_terms.out))

\* combined_factors, line 235
CombinedRotate(c, call, frame, memory) ==
    LET n_zones == ShapeOf(memory.es)[2]
        with == RotationArguments(c, frame.i)
        rotated == conjugate_rotate_into(Load(memory, with.out),
                                         Load(memory, with.input),
                                         Diff(n_zones, frame.diff_index))
    IN  IF rotated.status # "returned"
        THEN Return(c, memory, [status |-> rotated.status])
        ELSE Goto([frame EXCEPT !.label = "combined_factors.expect"],
                  Store(memory, with.out, rotated.out))

\* The statement after combined_factors returned its factors: it was the
\* call itself, or the one inside du_dcontrols.
CombinedReturn(c, call, memory, factors) ==
    IF call.fn = "combined_factors"
    THEN Return(c, memory, [status |-> "returned", out |-> factors])
    ELSE Goto(Frame("du_dcontrols.kets", 0, 0, 0, 0),
              Drop(Drop(memory, RotationTarget(c)),
                   Allocate(c, "integral_terms")))

\* combined_factors, lines 236-242: the loops over j and the parameters for
\* one diff_index and one i, and the step of the loops around them
CombinedExpect(c, call, frame, memory) ==
    LET es == memory.es
        n_zones == ShapeOf(es)[2]
        dimension == ShapeOf(es)[3]
        n_parameters == Len(es.k_derivatives.value)
        bra == Ravel(Load(memory, RotationTarget(c)))
        integral_terms == Load(memory, Allocate(c, "integral_terms"))
        d == frame.diff_index + 1
        i == frame.i + 1
        row == [j \in 1..dimension |-> [p \in 1..n_parameters |->
                   [term |-> integral_terms[d][i][j],
                    expectation |->
                        Expectation(bra, es.k_derivatives.value[p],
                                    Ravel(es.k_eigenvectors[j]))]]]
        factors == [Load(memory, Allocate(c, "factors"))
                        EXCEPT ![d][i] = row]
        after == Store(memory, Allocate(c, "factors"), factors)
    IN  IF n_parameters > 0 /\ Len(bra) # n_zones * dimension
        THEN Return(c, memory, [status |-> "ValueError"])
        ELSE IF i < dimension
        THEN Goto(Frame("combined_factors.rotate", frame.diff_index, i, 0, 0),
                  after)
        ELSE IF frame.diff_index + 1 \in DiffIndices(n_zones)
        THEN Goto(Frame("combined_factors.rotate", frame.diff_index + 1,
                        0, 0, 0), after)
        ELSE CombinedReturn(c, call, after, factors)

\* du_dcontrols, lines 253-257
DuDcontrolsAlloc(c, call, memory) ==
    LET es == memory.es
        n_parameters == Len(es.k_derivatives.value)
        out == [p \in 1..n_parameters |-> <<>>]
    IN  IF es.k_derivatives.none
        THEN Return(c, memory, [status |-> "AttributeError"])
        ELSE IF n_parameters = 0
        THEN Return(c, memory, [status |-> "returned", out |-> out])
        ELSE Goto(Frame("combined_factors.alloc", 0, 0, 0, 0),
                  Store(memory, Allocate(c, "out"), out))

\* The outer-product projector of du_dcontrols (line 265), and the window of
\* zone differences of line 270.
Projector(c) == Allocate(c, "projector")
WindowLong(zone_i, n_zones) == zone_i..(zone_i + n_zones)
Window(zone_i, n_zones) == zone_i..(zone_i + n_zones - 1)

\* du_dcontrols, lines 259-265
DuDcontrolsKets(c, call, memory) ==
    LET es == memory.es
        n_zones == ShapeOf(es)[2]
        current_kets == WeightedSum(es, KetWeights(es, call.time))
        k_eigenbras == [m \in 1..Len(es.k_eigenvectors) |->
                           ConjRows(es.k_eigenvectors[m])]
    IN  IF current_kets.status # "returned"
        THEN Return(c, memory, current_kets)
        ELSE Goto(Frame("du_dcontrols.outer", 0, 0, 0, n_zones - 1),
                  Store(Store(Store(memory,
                      Allocate(c, "current_kets"), current_kets.out),
                      Allocate(c, "k_eigenbras"), k_eigenbras),
                      Projector(c), <<>>))

\* du_dcontrols, line 269
DuDcontrolsOuter(c, call, frame, memory) ==
    LET current_kets == Load(memory, Allocate(c, "current_kets"))
        k_eigenbras == Load(memory, Allocate(c, "k_eigenbras"))
    IN  Goto([frame EXCEPT !.label = "du_dcontrols.accumulate"],
             Store(memory, Projector(c),
                   Outer(current_kets[frame.i + 1],
                         k_eigenbras[frame.j + 1][frame.zone_i + 1])))

\* out += factor * projector for every diff_i of a window, in order; every
\* product carries the indices it was made at.
RECURSIVE Accumulated(_, _, _, _, _)
Accumulated(out, window, frame, factors, projector) ==
    IF window = {} THEN out
    ELSE LET diff_i == CHOOSE d \in window : \A e \in window : d <= e
             factor == At(factors, diff_i)[frame.i + 1][frame.j + 1]
             added == [p \in 1..Len(out) |->
                         Append(out[p],
                                [at |-> <<frame.i, frame.j, frame.zone_i,
                                          diff_i>>,
                                 term |-> factor[p].term,
                                 matrix |-> MatrixScale(factor[p].expectation,
                                                        projector)])]
         IN  Accumulated(added, window \ {diff_i}, frame, factors, projector)

\* du_dcontrols, lines 270-272 for one i, j and zone_i, and the step of the
\* loops around them.  numba does not check an index: one out of range
\* reads whatever lies past the array, and nothing is known of the call
\* after that.
DuDcontrolsAccumulate(c, call, frame, memory) ==
    LET n_zones == ShapeOf(memory.es)[2]
        dimension == ShapeOf(memory.es)[3]
        factors == Load(memory, Allocate(c, "factors"))
        window == Window(frame.zone_i, n_zones)
        out == Accumulated(Load(memory, Allocate(c, "out")), window, frame,
                           factors, Load(memory, Projector(c)))
        after == Store(memory, Allocate(c, "out"), out)
    IN  IF \E diff_i \in window : ~InRange(factors, diff_i)
        THEN Return(c, memory, [status |-> "OutOfBounds"])
        ELSE IF frame.zone_i > 0
        THEN Goto(Frame("du_dcontrols.outer", 0, frame.i, frame.j,
                        frame.zone_i - 1), after)
        ELSE IF frame.j + 1 < dimension
        THEN Goto(Frame("du_dcontrols.outer", 0, frame.i, frame.j + 1,
                        n_zones - 1), after)
        ELSE IF frame.i + 1 < dimension
        THEN Goto(Frame("du_dcontrols.outer", 0, frame.i + 1, 0,
                        n_zones - 1), after)
        ELSE Return(c, memory, [status |-> "returned", out |-> out])

\* The first statement of an evaluator, and the statement at a label.
FirstLabel(fn) ==
    IF fn \in {"u", "du_dt", "combined_factors", "du_dcontrols"}
    THEN fn \o ".alloc" ELSE fn

Statement(c, call, frame, memory) ==
    CASE frame.label = "current_floquet_kets" -> KetsStep(c, call, memory)
      [] frame.label = "d_current_floquet_kets" -> DKetsStep(c, call, memory)
      [] frame.label = "integral_factors" -> IntegralStep(c, call, memory)
      [] frame.label = "u.alloc" -> UAlloc(c, call, memory)
      [] frame.label = "u.add" -> UAdd(c, call, frame, memory)
      [] frame.label = "du_dt.alloc" -> DuDtAlloc(c, call, memory)
      [] frame.label = "du_dt.outer_dkets" ->
            DuDtOuter(c, call, frame, memory, "dkets_dt", "du_dt.add_dkets")
      [] frame.label = "du_dt.add_dkets" -> DuDtAddFirst(c, call, frame, memory)
      [] frame.label = "du_dt.outer_kets" ->
            DuDtOuter(c, call, frame, memory, "kets", "du_dt.add_kets")
      [] frame.label = "du_dt.add_kets" -> DuDtAddSecond(c, call, frame, memory)
      [] frame.label = "combined_factors.alloc" -> CombinedAlloc(c, call, memory)
      [] frame.label = "combined_factors.rotate" ->
            CombinedRotate(c, call, frame, memory)
      [] frame.label = "combined_factors.expect" ->
            CombinedExpect(c, call, frame, memory)
      [] frame.label = "du_dcontrols.alloc" -> DuDcontrolsAlloc(c, call, memory)
      [] frame.label = "du_dcontrols.kets" -> DuDcontrolsKets(c, call, memory)
      [] frame.label = "du_dcontrols.outer" ->
            DuDcontrolsOuter(c, call, frame, memory)
      [] frame.label = "du_dcontrols.accumulate" ->
            DuDcontrolsAccumulate(c, call, frame, memory)

\* A whole call, run with nothing else going on.
RECURSIVE RunFrom(_, _, _, _)
RunFrom(c, call, frame, memory) ==
    LET next == Statement(c, call, frame, memory)
    IN  IF next.frame.label = "return" THEN next.result
        ELSE RunFrom(c, call, next.frame, next.memory)
Alone(c, call, es) ==
    RunFrom(c, call, Frame(FirstLabel(call.fn), 0, 0, 0, 0),
            [es |-> es, heap |-> <<>>])

\* The time of each caller's calls.
TimeOf(c) == c

SharedEigensystems ==
    UNION {{SharedEigensystem(n_zones, dimension, None)} \cup
           {SharedEigensystem(n_zones, dimension,
                Some(assemble_dk([p \in 1..n_parameters |->
                                     Generic(1, dimension, p - 1)], n_zones))) :
               n_parameters \in 0..1} :
           n_zones \in 1..MaxSharedZones, dimension \in Dimensions}

InitShared ==
    /\ pc = [c \in Callers |-> Idle]
    /\ args = [c \in Callers |-> [fn |-> "none", time |-> TimeOf(c)]]
    /\ ret = [heap |-> <<>>, result |-> [c \in Callers |-> NoRet]]
    /\ bundle \in SharedEigensystems

\* A caller with no call under way calls an evaluator.
Call ==
    \E c \in Callers, fn \in Evaluators :
        /\ pc[c].label \in {"idle", "return"}
        /\ args' = [args EXCEPT ![c] = [fn |-> fn, time |-> TimeOf(c)]]
        /\ pc' = [pc EXCEPT ![c] = Frame(FirstLabel(fn), 0, 0, 0, 0)]
        /\ ret' = [ret EXCEPT !.result[c] = NoRet]
        /\ UNCHANGED bundle

\* The next statement of caller c's call.
Advance(c) ==
    /\ pc[c].label \notin {"idle", "return"}
    /\ \E next \in {Statement(c, args[c], pc[c],
                               [es |-> bundle, heap |-> ret.heap])} :
        /\ pc' = [pc EXCEPT ![c] = next.frame]
        /\ bundle' = next.memory.es
        /\ ret' = [heap |-> next.memory.heap,
                   result |-> [ret.result EXCEPT ![c] = next.result]]
    /\ UNCHANGED args

\* One action for each evaluator: the next statement of a call of it.
CurrentFloquetKetsShared ==
    \E c \in Callers : args[c].fn = "current_floquet_kets" /\ Advance(c)

DCurrentFloquetKetsShared ==
    \E c \in Callers : args[c].fn = "d_current_floquet_kets" /\ Advance(c)

UShared ==
    \E c \in Callers : args[c].fn = "u" /\ Advance(c)

DuDtShared ==
    \E c \in Callers : args[c].fn = "du_dt" /\ Advance(c)

IntegralFactorsShared ==
    \E c \in Callers : args[c].fn = "integral_factors" /\ Advance(c)

CombinedFactorsShared ==
    \E c \in Callers : args[c].fn = "combined_factors" /\ Advance(c)

DuDcontrolsShared ==
    \E c \in Callers : args[c].fn = "du_dcontrols" /\ Advance(c)

NextShared ==
    \/ Call
    \/ CurrentFloquetKetsShared
    \/ DCurrentFloquetKetsShared
    \/ UShared
    \/ DuDtShared
    \/ IntegralFactorsShared
    \/ CombinedFactorsShared
    \/ DuDcontrolsShared

SpecShared == InitShared /\ [][NextShared]_vars

(***************************************************************************)
(* Properties of the spectral selector                                     *)
(***************************************************************************)
Ascending(a) == Take(a, CHOOSE p \in ArgSorts(a) : TRUE)
IsAscending(a) == \A i \in 1..(Len(a) - 1) : a[i] <= a[i + 1]
Count(a, P(_)) == Cardinality({i \in 1..Len(a) : P(a[i])})
Repeat(v, n) == [i \in 1..n |-> v]

\* The tie-break policy, stated from the three counts alone.
ZonePolicy(a, n_values, edge) ==
    LET Inside(v) == -edge < v /\ v < edge
        OnLower(v) == v = -edge
        OnUpper(v) == v = edge
        n_center == Count(a, Inside)
        n_lower_edge == Count(a, OnLower)
        n_upper_edge == Count(a, OnUpper)
        interior == SelectSeq(Ascending(a), Inside)
        Take_(vs) == [status |-> "returned", eigenvalues |-> vs]
    IN  IF n_center = n_values THEN Take_(interior)
        ELSE IF n_center + n_lower_edge = n_values
             THEN Take_(Repeat(-edge, n_lower_edge) \o interior)
        ELSE IF n_center + n_upper_edge = n_values
             THEN Take_(interior \o Repeat(edge, n_upper_edge))
        ELSE [status |-> "RuntimeError", eigenvalues |-> <<>>]

ZoneReturned == pc = "return" /\ args.fn = "first_brillouin_zone"

\* C1: for every array of rounded eigenvalues first_brillouin_zone ends as the
\* tie-break policy says: the interior values if they are n_values many, else
\* the interior and the lower edge, else the interior and the upper edge, else
\* the zone-resolution error (RuntimeError).
C1_TieBreakPolicy ==
    ZoneReturned =>
        LET policy == ZonePolicy(args.eigenvalues, args.n_values, args.edge)
        IN  /\ ret.status = policy.status
            /\ ret.eigenvalues = policy.eigenvalues

\* What holds of first_brillouin_zone instead: it follows the policy whenever
\* its edge-counting loops stay inside the array.
C1_PolicyUnlessIndexError ==
    (ZoneReturned /\ ret.status # "IndexError") =>
        LET policy == ZonePolicy(args.eigenvalues, args.n_values, args.edge)
        IN  /\ ret.status = policy.status
            /\ ret.eigenvalues = policy.eigenvalues

\* The lower edge is taken when both edges would fill the zone.
C1_BothEdges ==
    /\ ZoneReturned
    /\ ret.status = "returned"
    /\ \E i \in 1..Len(args.eigenvalues) : args.eigenvalues[i] = args.edge
    /\ \E i \in 1..Len(ret.eigenvalues) : ret.eigenvalues[i] = -args.edge

DiagReturned ==
    pc = "return" /\ args.fn = "diagonalise" /\ ret.status = "returned"

DiagCountRangeOrder ==
    LET edge == NpRound(args.frequency)
    IN  /\ Len(ret.eigenvalues) = args.h_dimension
        /\ Len(ret.eigenvectors) = args.h_dimension
        /\ \A k \in 1..Len(ret.eigenvalues) :
                -edge <= ret.eigenvalues[k] /\ ret.eigenvalues[k] <= edge
        /\ IsAscending(ret.eigenvalues)

\* C2 as stated: whenever diagonalise returns, it returns h_dimension
\* eigenvalues within [-edge, edge], ascending, and eigenvector k of the result
\* is the solver's eigenvector that was paired with eigenvalue k.
C2_SolverVectorKept ==
    DiagReturned =>
        /\ DiagCountRangeOrder
        /\ \E pick \in [1..Len(ret.eigenvalues) -> 1..Len(args.solved)] :
            /\ \A k, l \in DOMAIN pick : k # l => pick[k] # pick[l]
            /\ \A k \in DOMAIN pick :
                /\ NpRound(args.solved[pick[k]]) = ret.eigenvalues[k]
                /\ ret.eigenvectors[k] = {pick[k]}

\* C2 as amended: whenever diagonalise returns, it returns h_dimension
\* eigenvalues within [-edge, edge], ascending; eigenvector k is the solver's
\* eigenvector paired with eigenvalue k when that value occurs once in the
\* result, and otherwise a combination of solver eigenvectors that were all
\* paired with that value, the eigenvectors of one value spanning as many
\* solver eigenvectors as the value has occurrences.
C2_Diagonalise ==
    DiagReturned =>
        /\ DiagCountRangeOrder
        /\ \A k \in 1..Len(ret.eigenvalues) :
            LET same == {l \in 1..Len(ret.eigenvalues) :
                            ret.eigenvalues[l] = ret.eigenvalues[k]}
                span == UNION {ret.eigenvectors[l] : l \in same}
            IN  /\ ret.eigenvectors[k] # {}
                /\ \A i \in span :
                        NpRound(args.solved[i]) = ret.eigenvalues[k]
                /\ Cardinality(span) = Cardinality(same)

\* diagonalise returned a degenerate pair taken from an unsorted solver output
\* that also held values outside the zone.
C2_Witness ==
    /\ DiagReturned
    /\ ~IsAscending(args.solved)
    /\ Len(args.solved) > args.h_dimension
    /\ \E k \in 1..(Len(ret.eigenvalues) - 1) :
            ret.eigenvalues[k] = ret.eigenvalues[k + 1]

\* the maximal runs of equal values of length >= 2, as sets of 0-based indices
Runs(a) ==
    {run \in {(lo - 1)..(hi - 1) : lo \in 1..Len(a), hi \in 1..Len(a)} :
        /\ Cardinality(run) >= 2
        /\ \A i, j \in run : a[i + 1] = a[j + 1]
        /\ \A i \in 0..(Len(a) - 1) :
                (i \notin run /\ (i + 1 \in run \/ i - 1 \in run))
                    => \A j \in run : a[j + 1] # a[i + 1]}

Indices(group) == {group[m] : m \in 1..Len(group)}

\* C6: on a sorted array find_duplicates yields one group per maximal run of
\* equal values of length >= 2, the group holding the run's consecutive
\* indices in order; the groups come in ascending order and are disjoint, and
\* an index whose value occurs once is in no group.
C6_FindDuplicates ==
    (pc = "return" /\ args.fn = "find_duplicates") =>
        LET groups == ret.groups
        IN  /\ {Indices(groups[r]) : r \in 1..Len(groups)} = Runs(args.array)
            /\ Len(groups) = Cardinality(Runs(args.array))
            /\ \A r \in 1..Len(groups) :
                \A m \in 1..(Len(groups[r]) - 1) :
                    groups[r][m + 1] = groups[r][m] + 1
            /\ \A r \in 1..(Len(groups) - 1) :
                groups[r][Len(groups[r])] < groups[r + 1][1]
            /\ \A i \in 1..Len(args.array) :
                (\A j \in 1..Len(args.array) :
                    j # i => args.array[j] # args.array[i])
                    => \A r \in 1..Len(groups) : (i - 1) \notin Indices(groups[r])

\* find_duplicates returned two groups and left a single value out.
C6_Witness ==
    /\ pc = "return"
    /\ args.fn = "find_duplicates"
    /\ Len(ret.groups) = 2
    /\ \E i \in 1..Len(args.array) :
        \A r \in 1..Len(ret.groups) : (i - 1) \notin Indices(ret.groups[r])

\* C13: for every non-empty array of rounded eigenvalues, every n_values and
\* every edge, first_brillouin_zone ends by returning a selection or by
\* raising the zone-resolution error (RuntimeError), and in no other way: its
\* edge-counting loops never index outside the array.
C13_OnlyZoneResolutionError ==
    ZoneReturned => ret.status \in {"returned", "RuntimeError"}

\* C18: for edge > 0 the values first_brillouin_zone returns never hold both
\* -edge and +edge, so any two of them differ by less than 2 * edge.
C18_OneEdgeOnly ==
    (ZoneReturned /\ ret.status = "returned" /\ args.edge > 0) =>
        /\ ~ /\ \E i \in 1..Len(ret.eigenvalues) :
                    ret.eigenvalues[i] = -args.edge
             /\ \E i \in 1..Len(ret.eigenvalues) :
                    ret.eigenvalues[i] = args.edge
        /\ \A i, j \in 1..Len(ret.eigenvalues) :
              ret.eigenvalues[i] - ret.eigenvalues[j] < 2 * args.edge

\* C18 happens: both edges were in the array, and the values returned hold
\* one of them, together with an interior value.
C18_Witness ==
    /\ ZoneReturned
    /\ ret.status = "returned"
    /\ args.edge > 0
    /\ \E i, j \in 1..Len(args.eigenvalues) :
          /\ args.eigenvalues[i] = -args.edge
          /\ args.eigenvalues[j] = args.edge
    /\ \E i, j \in 1..Len(ret.eigenvalues) :
          /\ ret.eigenvalues[i] = -args.edge
          /\ ret.eigenvalues[j] > -args.edge

(***************************************************************************)
(* Properties of the matrix assembler                                      *)
(***************************************************************************)
\* block (row, col) of the flat matrix k, for 0-based block indices
Block(k, dim, row, col) ==
    [a \in 1..dim |-> [b \in 1..dim |-> k[row * dim + a][col * dim + b]]]
ZeroBlock(dim) == [a \in 1..dim |-> [b \in 1..dim |-> <<0, 0>>]]
Abs(x) == IF x < 0 THEN -x ELSE x

\* The block-placement rule for k built from hf with nz zones (nz odd) and
\* drive frequency omega.  The harmonic offset row - (nz - 1)/2 is stated
\* doubled, to stay among the integers.
FollowsBlockRule(k, hf, nz, omega) ==
    LET dim == Dimension(hf)
        max_harmonic == (Components(hf) - 1) \div 2
        Component(n) == hf[n + max_harmonic + 1]
    IN  /\ Len(k) = dim * nz
        /\ \A i \in 1..Len(k) : Len(k[i]) = dim * nz
        /\ \A row, col \in 0..(nz - 1) :
            LET block == Block(k, dim, row, col)
            IN  IF Abs(row - col) > max_harmonic THEN block = ZeroBlock(dim)
                ELSE IF row # col THEN block = Component(row - col)
                ELSE \A a, b \in 1..dim :
                    /\ block[a][b][2] = Component(0)[a][b][2]
                    /\ 2 * (block[a][b][1] - Component(0)[a][b][1])
                        = IF a = b THEN omega * (2 * row - (nz - 1)) ELSE 0

AssembleKReturned == pc = "return" /\ args.fn = "assemble_k"

\* C3: assemble_k returns a (dimension * n_zones)-square matrix whose block
\* (row, col) is the Fourier component of harmonic row - col inside the band,
\* that component plus frequency * (row - (n_zones - 1)/2) * Identity on the
\* diagonal, and zero outside the band; every block of the band is written
\* exactly once and no other block is written.
C3_AssembleK ==
    (AssembleKReturned /\ args.nz % 2 = 1) =>
        /\ ret.status = "returned"
        /\ FollowsBlockRule(ret.k, args.hf, args.nz, args.omega)
        /\ \A x, y \in 1..Len(ret.calls) : x # y => ret.calls[x] # ret.calls[y]
        /\ {ret.calls[x] : x \in 1..Len(ret.calls)}
            = {<<row, col>> \in (0..(args.nz - 1)) \X (0..(args.nz - 1)) :
                    2 * Abs(row - col) <= Components(args.hf) - 1}

\* the scenario of the test: 2 levels, 3 components, 5 zones, frequency 1
C3_Witness ==
    /\ AssembleKReturned
    /\ ret.status = "returned"
    /\ Dimension(args.hf) = 2
    /\ Components(args.hf) = 3
    /\ args.nz = 5
    /\ args.omega = 1
    /\ args.hf # Hermitianise(args.hf)

\* C5: assemble_k never returns a matrix when n_zones is even or smaller than
\* the number of components: it fails with an error.
C5_FailsFast ==
    (AssembleKReturned /\ (args.nz % 2 = 0 \/ args.nz < Components(args.hf)))
        => ret.status # "returned"

\* C9: assemble_dk returns one matrix per control parameter, in parameter
\* order, matrix c following the block-placement rule for derivative_tensor[c]
\* with no frequency offset on any diagonal block.
C9_AssembleDk ==
    (pc = "return" /\ args.fn = "assemble_dk" /\ args.nz % 2 = 1) =>
        /\ ret.status = "returned"
        /\ Len(ret.dk) = Len(args.dhf)
        /\ \A c \in 1..Len(args.dhf) :
                /\ FollowsBlockRule(ret.dk[c], args.dhf[c], args.nz, 0)
                /\ ret.dk[c] = assemble_k(args.dhf[c], args.nz, 0).k

\* two parameters with different three-component tensors, three zones
C9_Witness ==
    /\ pc = "return"
    /\ args.fn = "assemble_dk"
    /\ Len(args.dhf) = 2
    /\ args.dhf[1] # args.dhf[2]
    /\ Components(args.dhf[1]) = 3
    /\ args.nz = 3
    /\ Len(ret.dk) = 2

\* component(-n) is the conjugate transpose of component(+n), for every n
IsHermitianTensor(hf) ==
    \A c \in 1..Len(hf) : \A a, b \in 1..Dimension(hf) :
        hf[c][a][b] = Conj(hf[Len(hf) + 1 - c][b][a])

\* C10: for odd n_zones >= n_components, a Hamiltonian tensor whose
\* component(-n) is the conjugate transpose of component(+n) gives a Hermitian
\* matrix: block (row, col) is the conjugate transpose of block (col, row).
C10_Hermitian ==
    (/\ AssembleKReturned
     /\ args.nz % 2 = 1
     /\ args.nz >= Components(args.hf)
     /\ IsHermitianTensor(args.hf)) =>
        /\ ret.status = "returned"
        /\ \A row, col \in 0..(args.nz - 1) :
            \A a, b \in 1..Dimension(args.hf) :
                Block(ret.k, Dimension(args.hf), row, col)[a][b]
                    = Conj(Block(ret.k, Dimension(args.hf), col, row)[b][a])

\* a Hermitian tensor with three complex 2 x 2 components, and a frequency
C10_Witness ==
    /\ AssembleKReturned
    /\ ret.status = "returned"
    /\ IsHermitianTensor(args.hf)
    /\ Components(args.hf) = 3
    /\ Dimension(args.hf) = 2
    /\ args.nz = 3
    /\ args.omega > 0
    /\ \E a, b \in 1..2 : a # b /\ args.hf[3][a][b][2] # 0

(***************************************************************************)
(* Properties of conjugate_rotate_into                                     *)
(***************************************************************************)
RotateReturned == pc = "return" /\ args.fn = "conjugate_rotate_into"

\* C7: for |amount| < n, conjugate_rotate_into leaves
\* out[k] = conj(input[(k - amount) mod n]) for every k, writes every element
\* of out, and leaves input unchanged.
C7_ConjugateRotate ==
    (RotateReturned /\ Abs(args.amount) < Len(args.input)) =>
        LET n == Len(args.input)
        IN  /\ ret.status = "returned"
            /\ Len(ret.out) = n
            /\ \A k \in 0..(n - 1) :
                \A d \in 1..Len(args.input[1]) :
                    ret.out[k + 1][d]
                        = Conj(args.input[((k - args.amount) % n) + 1][d])
            /\ ret.written = 0..(n - 1)
            /\ ret.input = args.input

\* a rotation toward lower indices into a buffer that still holds the result
\* of a rotation toward higher indices
C7_Witness ==
    /\ RotateReturned
    /\ ret.status = "returned"
    /\ Len(args.input) >= 3
    /\ args.amount < 0
    /\ Abs(args.amount) < Len(args.input)
    /\ args.out # Zeros(Len(args.input), Len(args.input[1]))
    /\ args.out # ret.out

(***************************************************************************)
(* Properties of the Eigensystem and its evaluators                        *)
(***************************************************************************)
EigensystemReturned == pc = "return" /\ args.fn = "eigensystem"
NeedsDerivatives == {"du_dcontrols", "combined_factors"}

\* C4: an Eigensystem built with dhamiltonian absent has k_derivatives absent,
\* and every call of du_dcontrols or combined_factors on an Eigensystem whose
\* k_derivatives is absent ends in an error: it returns nothing, and in
\* particular no tensor of zeros.
C4_NoDerivatives ==
    /\ (EigensystemReturned /\ bundle.built /\ args.dhamiltonian.none)
           => bundle.k_derivatives = None
    /\ (EigensystemReturned /\ bundle.built /\ ~args.dhamiltonian.none)
           => ~bundle.k_derivatives.none
    /\ (bundle.built /\ bundle.k_derivatives.none
            /\ args.fn \in NeedsDerivatives)
           => ret.status \notin {"returned", "none"}

\* C4 happens: du_dcontrols was called on an Eigensystem without derivatives
\* and raised.
C4_Witness ==
    /\ bundle.built
    /\ bundle.k_derivatives.none
    /\ args.fn = "du_dcontrols"
    /\ ret.status = "AttributeError"

IntegralReturned ==
    pc = "return" /\ args.fn = "integral_factors" /\ ret.status = "returned"
Scale(z, n) == <<z[1] * n, z[2] * n>>
SameNumber(x, y) ==
    /\ x.halfpi = y.halfpi
    /\ (x.den = 0) = (y.den = 0)
    /\ Scale(x.num, y.den) = Scale(y.num, x.den)
Phase(k) == IPow(-(args.time * bundle.quasienergies[k]))
Energy(k) == bundle.quasienergies[k]
\* The three terms; the phase that multiplies the exponential of the general
\* term is that of mode `turning`.
Term(delta, i, j, turning) ==
    IF delta = 0 /\ i = j
    THEN Number(CMul(<<0, -args.time>>, Phase(i)), 1, 1)
    ELSE IF delta = 0
    THEN Number(CSub(Phase(i), Phase(j)), Energy(i) - Energy(j), 0)
    ELSE Number(CSub(Phase(i),
                     CMul(Phase(turning),
                          IPow(args.time * bundle.frequency * delta))),
                Energy(i) + bundle.frequency * delta - Energy(j), 0)
ZoneCount == bundle.k_eigenvectors.shape[2]
Modes == 1..Len(bundle.quasienergies)
Differences == (1 - ZoneCount)..(ZoneCount - 1)
Factor(delta, i, j) == ret.out[delta + ZoneCount][i][j]

\* C8 as stated: integral_factors returns, for every zone difference delta in
\* [1 - n_zones, n_zones - 1] and every pair (i, j), -i t phase[i] when i = j
\* and delta = 0, (phase[i] - phase[j]) / (energy[i] - energy[j]) when i # j
\* and delta = 0, and otherwise
\* (phase[i] - phase[i] exp(i t frequency delta))
\*     / (energy[i] + frequency delta - energy[j]).
C8_OwnPhase ==
    IntegralReturned =>
        /\ Len(ret.out) = 2 * ZoneCount - 1
        /\ \A delta \in Differences : \A i, j \in Modes :
              /\ Factor(delta, i, j).writes >= 1
              /\ SameNumber(Factor(delta, i, j), Term(delta, i, j, i))

\* C8 as amended: the same, with the general term
\* (phase[i] - phase[j] exp(i t frequency delta))
\*     / (energy[i] + frequency delta - energy[j]).
C8_IntegralFactors ==
    IntegralReturned =>
        /\ Len(ret.out) = 2 * ZoneCount - 1
        /\ \A delta \in Differences : \A i, j \in Modes :
              /\ Factor(delta, i, j).writes >= 1
              /\ SameNumber(Factor(delta, i, j), Term(delta, i, j, j))

\* C8 happens: integral_factors returned factors of a nonzero zone difference
\* between two modes whose phases differ, and of the zero difference.
C8_Witness ==
    /\ IntegralReturned
    /\ ZoneCount >= 3
    /\ \E i, j \in Modes :
          /\ i # j
          /\ Phase(i) # Phase(j)
          /\ Factor(1, i, j).den # 0
          /\ Factor(-1, j, i).num # <<0, 0>>
          /\ Factor(0, i, j).num # <<0, 0>>
          /\ Factor(0, i, i).num # <<0, 0>>

\* C17: integral_factors assigns every element of its (2 n_zones - 1) x
\* dimension x dimension output exactly once before it returns: slice
\* n_zones - 1 by the diagonal loop (i = j) and the symmetric loop (i # j),
\* slices 0..n_zones-2 by the first general loop, slices
\* n_zones..2 n_zones-2 by the second; no slice is skipped and none is
\* written by two of the parts.
C17_EveryElementOnce ==
    IntegralReturned =>
        /\ Len(ret.out) = 2 * ZoneCount - 1
        /\ \A d \in 1..Len(ret.out) :
              /\ Len(ret.out[d]) = bundle.k_eigenvectors.shape[3]
              /\ \A i \in 1..Len(ret.out[d]) :
                    /\ Len(ret.out[d][i]) = bundle.k_eigenvectors.shape[3]
                    /\ \A j \in 1..Len(ret.out[d][i]) :
                          /\ ret.out[d][i][j].writes = 1
                          /\ ret.out[d][i][j].by =
                                IF d - 1 = ZoneCount - 1
                                THEN (IF i = j THEN {1} ELSE {2})
                                ELSE IF d - 1 < ZoneCount - 1 THEN {3}
                                ELSE {4}

\* C17 happens: integral_factors returned slices on both sides of the zero
\* difference, and off-diagonal elements.
C17_Witness ==
    /\ IntegralReturned
    /\ ZoneCount >= 3
    /\ Len(ret.out[1]) >= 2
    /\ ret.out[ZoneCount + 1][1][2].by = {4}
    /\ ret.out[ZoneCount - 1][2][1].by = {3}
    /\ ret.out[ZoneCount][2][1].by = {2}

\* C15: on an Eigensystem whose quasienergies diagonalise selected,
\* integral_factors never divides by zero: energy[i] - energy[j] # 0 for
\* every pair i # j of the zero difference, and
\* energy[i] + frequency * delta - energy[j] # 0 for every pair and every
\* difference delta # 0.
C15_NoZeroDivisor ==
    (bundle.built /\ args.fn = "integral_factors") =>
        /\ ret.status # "ZeroDivisionError"
        /\ \A i, j \in Modes : i # j => Energy(i) - Energy(j) # 0
        /\ \A delta \in Differences \ {0} : \A i, j \in Modes :
              Energy(i) + bundle.frequency * delta - Energy(j) # 0

Central(hamiltonian) == hamiltonian[(Len(hamiltonian) + 1) \div 2]

\* C20: for odd n_zones the harmonic offsets behind abstract_ket_coefficients
\* are the n_zones consecutive integers -(n_zones-1)/2 .. (n_zones-1)/2 in
\* ascending order, one per Fourier block of k_eigenvectors, and the offset at
\* index r is the offset r - (n_zones-1)/2 that assemble_k multiplies by the
\* frequency and adds to diagonal block r.
C20_HarmonicOffsets ==
    /\ \A nz \in {n \in 1..MaxZones : n % 2 = 1} :
          fourier_modes(nz) = [r \in 1..nz |-> (r - 1) - ((nz - 1) \div 2)]
    /\ (EigensystemReturned /\ bundle.built /\ args.n_zones % 2 = 1) =>
          LET nz == args.n_zones
              dim == Dimension(args.hamiltonian)
              k == assemble_k(args.hamiltonian, nz, 2 * args.frequency).k
              coefficients == bundle.abstract_ket_coefficients
          IN  /\ Len(coefficients) = nz
              /\ bundle.k_eigenvectors.shape[2] = nz
              /\ \A r \in 1..nz :
                    /\ coefficients[r] =
                          <<0, args.frequency * ((r - 1) - ((nz - 1) \div 2))>>
                    /\ r < nz => coefficients[r][2] < coefficients[r + 1][2]
                    /\ \A a \in 1..dim :
                          k[(r - 1) * dim + a][(r - 1) * dim + a]
                            = <<Central(args.hamiltonian)[a][a][1]
                                  + 2 * coefficients[r][2], 0>>

\* C20 happens: an Eigensystem of three zones was built.
C20_Witness ==
    /\ EigensystemReturned
    /\ bundle.built
    /\ args.n_zones = 3
    /\ bundle.abstract_ket_coefficients[1][2] < 0
    /\ bundle.abstract_ket_coefficients[3][2] > 0

(***************************************************************************)
(* Properties of the sparse path                                           *)
(***************************************************************************)
LadderReturned == pc = "return" /\ args.fn = "diagonalise" /\ args.sparse

\* C16: on the sparse path, where the solver returns the 2 * dimension
\* eigenvalues nearest zero of a spectrum made of `dimension` quasienergies
\* each repeated at every whole multiple of the frequency,
\* first_brillouin_zone finds a full set: diagonalise returns exactly
\* `dimension` values and does not raise.
C16_FullSet ==
    LadderReturned =>
        /\ ret.status = "returned"
        /\ Len(ret.eigenvalues) = args.h_dimension

\* What holds of the sparse path instead: a full set is found whenever half
\* the frequency is a whole number of units, so that the edge is not rounded.
C16_FullSetWhenEdgeExact ==
    (LadderReturned /\ args.frequency % 2 = 0) =>
        /\ ret.status = "returned"
        /\ Len(ret.eigenvalues) = args.h_dimension

Identity(n) == [row \in 1..n |-> [col \in 1..n |->
                   IF row = col THEN <<1, 0>> ELSE <<0, 0>>]]
UCalled ==
    /\ pc = "return"
    /\ bundle.built
    /\ args.fn = "u"
UReturned == UCalled /\ ret.status = "returned"

OffCentre(m) ==
    \E i \in bundle.k_eigenvectors.vecs[m] :
        ZoneOf(i, bundle.k_eigenvectors.shape[3])
            # bundle.k_eigenvectors.shape[2] \div 2
C11_BundleReadOnly == [][bundle' = bundle]_vars

Underway(c) == pc[c].label \notin {"idle", "return"}
ReturnedFrom(c, fn) ==
    /\ pc[c].label = "return"
    /\ args[c].fn = fn
    /\ ret.result[c].status = "returned"

\* du_dcontrols has run to its end on a three-zone Eigensystem of two levels
\* while a du_dt is under way, and the Eigensystem is one of those given.
C11_Witness ==
    /\ ReturnedFrom(1, "du_dcontrols")
    /\ pc[2].label = "du_dt.add_kets"
    /\ ShapeOf(bundle) = <<2, 3, 2>>
    /\ bundle \in SharedEigensystems

\* C12: every array a call allocates is held by that call alone, only while
\* the call is under way, and whatever the other caller did meanwhile a call
\* returns what it returns when run alone.
C12_PrivateBuffers ==
    /\ \A key \in DOMAIN ret.heap : key[1] \in Callers /\ Underway(key[1])
    /\ \A c \in Callers :
        pc[c].label = "return" => ret.result[c] = Alone(c, args[c], bundle)

\* A du_dcontrols returned while a combined_factors at another time was in
\* the middle of its loops, its rotation target written.
C12_Witness ==
    /\ ReturnedFrom(1, "du_dcontrols")
    /\ args[2].fn = "combined_factors"
    /\ args[2].time # args[1].time
    /\ pc[2].label = "combined_factors.expect"
    /\ pc[2].diff_index >= 1
    /\ Load([es |-> bundle, heap |-> ret.heap], RotationTarget(2))
           # Zeros(ShapeOf(bundle)[2], ShapeOf(bundle)[3])
    /\ ret.result[1] = Alone(1, args[1], bundle)

\* The products du_dcontrols added for one parameter at one (i, j, zone_i).
AddedAt(out, p, i, j, zone_i) ==
    {k \in 1..Len(out[p]) : SubSeq(out[p][k].at, 1, 3) = <<i, j, zone_i>>}

\* C19: the rotation amount lies within n_zones - 1 of zero and diff_index,
\* which is the amount plus n_zones - 1, in [0, 2 n_zones - 2]; no call reads
\* outside an array or fails to rotate; and du_dcontrols adds for every
\* (i, j, zone_i) exactly the n_zones products of diff_i from zone_i to
\* zone_i + n_zones - 1, all in [0, 2 n_zones - 2].
C19_IndicesInRange ==
    \A c \in Callers :
        LET n_zones == ShapeOf(bundle)[2]
            dimension == ShapeOf(bundle)[3]
            amount == Diff(n_zones, pc[c].diff_index)
            out == ret.result[c].out
        IN  /\ pc[c].label \in {"combined_factors.rotate",
                                "combined_factors.expect"}
                => /\ -(n_zones - 1) <= amount /\ amount <= n_zones - 1
                   /\ pc[c].diff_index = amount + n_zones - 1
                   /\ 0 <= pc[c].diff_index
                   /\ pc[c].diff_index <= 2 * n_zones - 2
            /\ pc[c].label \in {"du_dcontrols.outer",
                                "du_dcontrols.accumulate"}
                => /\ 0 <= pc[c].zone_i /\ pc[c].zone_i <= n_zones - 1
                   /\ pc[c].i \in 0..(dimension - 1)
                   /\ pc[c].j \in 0..(dimension - 1)
            /\ (pc[c].label = "return"
                    /\ args[c].fn \in {"combined_factors", "du_dcontrols"})
                => ret.result[c].status
                       \in {"returned", "AttributeError"} \cup
                           (IF n_zones % 2 = 0 /\ args[c].fn = "du_dcontrols"
                            THEN {"ValueError"} ELSE {})
            /\ (ReturnedFrom(c, "du_dcontrols") /\ Len(out) > 0)
                => \A p \in 1..Len(out) :
                    /\ Len(out[p]) = dimension * dimension * n_zones * n_zones
                    /\ \A i, j \in 0..(dimension - 1), zone_i \in 0..(n_zones - 1) :
                        /\ Cardinality(AddedAt(out, p, i, j, zone_i)) = n_zones
                        /\ {out[p][k].at[4] : k \in AddedAt(out, p, i, j, zone_i)}
                               = zone_i..(zone_i + n_zones - 1)
                    /\ \A k \in 1..Len(out[p]) :
                        out[p][k].at[4] \in 0..(2 * n_zones - 2)

\* du_dcontrols ran through every window of a three-zone Eigensystem of two
\* levels and returned.
C19_Witness ==
    /\ ReturnedFrom(2, "du_dcontrols")
    /\ ShapeOf(bundle) = <<2, 3, 2>>
    /\ Len(ret.result[2].out) = 1
    /\ Len(ret.result[2].out[1]) = 36

====
